---- MODULE Spec2Model ----
(***************************************************************************)
(* State-machine model of panorama_log_viewer.py: the start of the program *)
(* (__init__ with its refresh), the callbacks of its menu, the log         *)
(* synchronisation engine (download_and_merge_logs,                        *)
(* download_and_merge_logs_with_skip), the per-category cache files and    *)
(* the normalisation of the cached raw entries (parse_saved_*_logs).       *)
(*                                                                         *)
(* Encoding of the data:                                                   *)
(*  - a text is a sequence of one-character strings; an optional text      *)
(*    (findtext() that may return None) is 0 for None and, for a text, its *)
(*    position in TextPool, the texts that occur in entries;               *)
(*  - a time_generated text is a number: 0 stands for None or the empty    *)
(*    text, k >= 1 for the k-th fixed-width "YYYY/MM/DD HH:MM:SS" stamp    *)
(*    (string order of these stamps is the numeric order);                 *)
(*  - a logid attribute is a number, 0 standing for "no logid attribute";  *)
(*  - a cache file is a record: exists, wellformed (parses as XML),        *)
(*    entries (its .//entry elements in document order), mode.             *)
(***************************************************************************)
EXTENDS Integers, Sequences, FiniteSets, TLC

VARIABLES
    panoramas,       \* self.panoramas: profile name -> the entry stored for it
    panorama,        \* self.panorama: name of the active profile (a text)
    api_key,         \* self.api_key: 0 = none, k >= 1 a session token
    files,           \* cache directory: cache file path -> file
    remote,          \* appliance side: log type -> log history, newest first
    act_limit,       \* appliance side: polls a job may answer ACT before it ends
    config_logs,     \* self.config_logs
    failed_commits,  \* self.failed_commits
    system_logs,     \* self.system_logs
    handler,         \* callback being executed, "idle" between callbacks
    step,            \* index of the download call the callback is executing
    pc,              \* position inside the callback ("login": in the login dialog)
    attempt,         \* loop variable of the polling loop (polls already made)
    job_id,          \* job id returned by the start request, 0 = none
    status,          \* local variable status of the running download call
    alert,           \* title of the alert box the last callback raised, "none" if none
    last,            \* the most recent download call and how it ended
    all_merged,      \* every download call of the current callback ended in a merge so far
    fromEmpty,       \* per log type: the store held no entry when the callback began
    derived,         \* per log type: the list is what the last parse made of the file as it is
    prev,            \* the previous callback, if a sync whose calls all merged, and the sizes it left
    hide_panorama_users,  \* self.hide_panorama_users
    menus,           \* the submenus the three log menus hold
    error,           \* the exception the menu builders of the last callback raised, "none" if none
    search,          \* the last search: its term and its list matches
    display_menu_icon,  \* self.display_menu_icon
    title,           \* self.title: the text in the menu bar
    saved,           \* the configuration file: as found at the start or as written last
    switch_menu      \* names of the profile items of the Switch Panorama submenu

vars == <<pc, step, attempt, job_id, status, handler, alert, error, all_merged,
          panorama, api_key, act_limit, hide_panorama_users, display_menu_icon, title,
          derived, fromEmpty, prev, saved, switch_menu,
          panoramas, search, last, files, remote, config_logs, failed_commits,
          system_logs, menus>>

-----------------------------------------------------------------------------
(* Bounds of the model *)

\* entries the appliance returns for one nlogs=5000 window
ChunkLen == 1
\* entries the appliance returns when nlogs is not given
DefaultLen == 1
\* distinct time stamps
MaxTime == 2
\* entries a cache file may hold before further merges are cut off
MaxStore == 3
\* ACT answers per job in the specifications that do not study time-outs
MaxDelay == 1
\* entries of the appliance's log history of one log type
HistLen == 2
\* raw entries of a cache file drawn for the normalisation specification
MaxRaw == 3
\* distinct logid values in the normalisation specification
MaxLogId == 2

(* Program constants *)

\* for attempt in range(60)
MaxPolls == 60
\* nlogs=5000 of the sync callbacks
NLogs == 5000
\* skip=5000 of the second chunk
SkipSecond == 5000

LogTypes == {"config", "system"}

-----------------------------------------------------------------------------
(* Texts *)

RECURSIVE SeqsUpTo(_, _)
SeqsUpTo(S, n) ==
    IF n = 0 THEN {<<>>}
    ELSE LET shorter == SeqsUpTo(S, n - 1)
         IN  shorter \cup {Append(s, x) : s \in {t \in shorter : Len(t) = n - 1}, x \in S}

UpperChars == <<"A", "B", "C", "D", "E", "F", "G", "H", "I", "J", "K", "L", "M",
               "N", "O", "P", "Q", "R", "S", "T", "U", "V", "W", "X", "Y", "Z">>
LowerChars == <<"a", "b", "c", "d", "e", "f", "g", "h", "i", "j", "k", "l", "m",
               "n", "o", "p", "q", "r", "s", "t", "u", "v", "w", "x", "y", "z">>

\* the lower-case letter of every upper-case letter
LowerOf ==
    [c \in {UpperChars[i] : i \in 1..Len(UpperChars)} |->
        LowerChars[CHOOSE i \in 1..Len(UpperChars) : UpperChars[i] = c]]

\* str.lower() on one character
LowerChar(c) == IF c \in DOMAIN LowerOf THEN LowerOf[c] ELSE c

\* str.lower()
Lower(s) == [i \in 1..Len(s) |-> LowerChar(s[i])]

\* sub in s
Contains(sub, s) ==
    \E i \in 0..(Len(s) - Len(sub)) : SubSeq(s, i + 1, i + Len(sub)) = sub

Alnum == {"a", "b", "p", "0", "1", "2"}
SafePunct == {".", "-", "_"}

\* "".join(c for c in name if c.isalnum() or c in ".-_")
SafeName(name) == SelectSeq(name, LAMBDA c : c \in Alnum \/ c \in SafePunct)

\* a path that does not depend on the log type
PathWithoutLogType(name, log_type) == <<SafeName(name), "log">>

\* get_cache_file_path: the file name decides the path inside cache_dir
get_cache_file_path(name, log_type) == <<SafeName(name), log_type>>

ProfileNames == {<<"p", "1">>}

\* names typed into the login dialog, keys the keygen request returns
LoginNames == {<<"p", "1">>, <<"b">>}
LoginKeys == {4}
CachePaths == {get_cache_file_path(n, t) : n \in ProfileNames, t \in LogTypes}

-----------------------------------------------------------------------------
(* Raw entries and cache files *)

\* texts of the children of an entry: admin, cmd, path, severity and result
AdminName == <<"a">>
PanoramaPrefix == <<"P", "a", "n", "o", "r", "a", "m", "a", "-">>
PanoramaUser == PanoramaPrefix \o <<"x">>
SetCmd == <<"s", "e", "t">>
EditCmd == <<"e", "d", "i", "t">>
SectionX == <<"x">>
InfoSeverity == <<"i">>
HighSeverity == <<"h">>
CommitFailed == <<"C", "o", "m", "m", "i", "t", " ", "F", "a", "i", "l", "e", "d">>
CommitSucceeded == <<"C", "o", "m", "m", "i", "t", " ", "S", "u", "c", "c", "e", "e", "d", "e", "d">>
UpperFail == <<"F", "A", "I", "L">>

\* the texts that occur in entries
TextPool ==
    <<AdminName, PanoramaUser, SetCmd, EditCmd, SectionX, InfoSeverity, HighSeverity,
      CommitFailed, CommitSucceeded, UpperFail>>

\* entry.findtext(child): None for a missing child, else its text; an optional text
\* is kept as the position of the text in TextPool, None as 0
NoText == 0
Text(t) == CHOOSE i \in 1..Len(TextPool) : TextPool[i] = t

\* the characters of a text that is not None
TextOf(v) == TextPool[v]

\* a raw entry: its logid attribute and the children time_generated (tgsub: it has
\* children of its own), result, admin, cmd, path and severity
Entry(l, t, sub, res, adm, cmd, path, sev) ==
    [logid |-> l, tg |-> t, tgsub |-> sub, result |-> res,
     admin |-> adm, cmd |-> cmd, path |-> path, severity |-> sev]

\* a raw entry as the appliance writes it: admin, cmd and severity are present
RawEntry(l, t, sub, res) ==
    Entry(l, t, sub, res, Text(AdminName), Text(SetCmd), NoText, Text(InfoSeverity))

\* {"api_key": key, "id": ...}: an entry of self.panoramas as the login writes it
Info(key) == [isdict |-> TRUE, api_key |-> key]

\* entries of self.panoramas as a damaged configuration file may hold them: a value
\* that is not a dict, a dict without "api_key"
NotADict == [isdict |-> FALSE, api_key |-> 0]
DictWithoutKey == [isdict |-> TRUE, api_key |-> 0]

\* isinstance(info, dict)
IsDict(info) == info.isdict

\* self.panoramas.get(name): None, which is no dict, for a name without entry
PanoramasGet(regs, name) == IF name \in DOMAIN regs THEN regs[name] ELSE NotADict

\* info.get("api_key"): 0 stands for None
InfoGet(info) == info.api_key

NoFile == [exists |-> FALSE, wellformed |-> TRUE, entries |-> <<>>, mode |-> "none"]
CorruptFile == [exists |-> TRUE, wellformed |-> FALSE, entries |-> <<>>, mode |-> "0600"]
StoreFile(es) == [exists |-> TRUE, wellformed |-> TRUE, entries |-> es, mode |-> "0600"]

\* truth value of entry.find("time_generated"): an Element is true iff it has children
FindIsTrue(e) == e.tgsub

Max(S) == CHOOSE x \in S : \A y \in S : y <= x

\* latest = max((entry.findtext("time_generated") for entry in existing_entries
\*               if entry.find("time_generated")), default="")
Latest(es) ==
    LET found == {es[i].tg : i \in {j \in 1..Len(es) : FindIsTrue(es[j])}}
    IN  IF found = {} THEN 0 ELSE Max(found)

\* latest as the download functions compute it from the cache file
LatestOfFile(f) ==
    IF f.exists /\ f.wellformed THEN Latest(f.entries) ELSE 0

\* if tg and tg > latest: new_entries.append(entry)
Newer(fetched, latest) == SelectSeq(fetched, LAMBDA e : e.tg # 0 /\ e.tg > latest)

\* new_entries of download_and_merge_logs
NewEntries(f, fetched) == Newer(fetched, LatestOfFile(f))

\* a skip > 0 chunk put through the time-stamp filter like the first chunk
NewEntriesWithSkipFiltered(f, fetched, skip) == Newer(fetched, LatestOfFile(f))

\* new_entries of download_and_merge_logs_with_skip
NewEntriesWithSkip(f, fetched, skip) ==
    IF skip > 0 THEN fetched ELSE Newer(fetched, LatestOfFile(f))

\* tree.write(cache_file): the file holds the entries; a file that did not exist is
\* created with the mode the process umask gives (0644)
WriteTree(f, es) ==
    [exists |-> TRUE, wellformed |-> TRUE, entries |-> es,
     mode |-> IF f.exists THEN f.mode ELSE "0644"]

\* a merge that leaves the mode of the file as the write made it
Chmod600Skipped(f) == f

\* os.chmod(cache_file, 0o600)
Chmod600(f) == [f EXCEPT !.mode = "0600"]

\* a merge that writes the new entries over the file instead of appending them
MergeResultOverwrite(f, new) ==
    IF new = <<>> THEN [raised |-> FALSE, file |-> f]
    ELSE IF f.exists /\ ~f.wellformed THEN [raised |-> TRUE, file |-> f]
    ELSE [raised |-> FALSE, file |-> StoreFile(new)]

\* the "if new_entries:" block: "ok" with the file written, or "exception" when
\* ET.parse(cache_file) raises on a file that is not XML (file left as it was)
MergeResult(f, new) ==
    IF new = <<>> THEN [raised |-> FALSE, file |-> f]
    ELSE IF f.exists /\ ~f.wellformed THEN [raised |-> TRUE, file |-> f]
    ELSE [raised |-> FALSE, file |-> Chmod600(WriteTree(f, f.entries \o new))]

-----------------------------------------------------------------------------
(* Normalisation: parse_saved_config_logs, parse_saved_system_logs *)

FailWord == <<"f", "a", "i", "l">>

\* the dict built for one config entry (the fields the model carries)
ConfigLog(e) ==
    [LogID |-> e.logid, Result |-> e.result, Admin |-> e.admin, CommandType |-> e.cmd,
     ConfigSection |-> e.path]

\* log["Result"] and "fail" in log["Result"].lower()
IsFailed(log) ==
    /\ log.Result # NoText
    /\ TextOf(log.Result) # <<>>
    /\ Contains(FailWord, Lower(TextOf(log.Result)))

\* a parse that never skips an entry
ConfigDuplicateNever(log_id, seen) == FALSE

\* if log_id and log_id in seen_log_ids: continue
ConfigDuplicate(log_id, seen) == log_id # 0 /\ log_id \in seen

\* the for loop of parse_saved_config_logs from entry i on
RECURSIVE ConfigLoop(_, _, _, _, _)
ConfigLoop(es, i, seen, logs, failed) ==
    IF i > Len(es) THEN [config_logs |-> logs, failed_commits |-> failed]
    ELSE LET log_id == es[i].logid
         IN  IF ConfigDuplicate(log_id, seen)
             THEN ConfigLoop(es, i + 1, seen, logs, failed)
             ELSE ConfigLoop(es, i + 1,
                             IF log_id # 0 THEN seen \cup {log_id} ELSE seen,
                             Append(logs, ConfigLog(es[i])),
                             IF IsFailed(ConfigLog(es[i]))
                             THEN Append(failed, ConfigLog(es[i])) ELSE failed)

\* a parse that handles a file that is not XML like an absent one
ParsedConfigCorruptAsAbsent(f, failed_before) ==
    IF ~f.exists \/ ~f.wellformed
    THEN [config_logs |-> <<>>, failed_commits |-> failed_before]
    ELSE ConfigLoop(f.entries, 1, {}, <<>>, <<>>)

\* parse_saved_config_logs: the new (config_logs, failed_commits)
ParsedConfig(f, failed_before) ==
    IF ~f.exists THEN [config_logs |-> <<>>, failed_commits |-> failed_before]
    ELSE IF ~f.wellformed THEN [config_logs |-> <<>>, failed_commits |-> <<>>]
    ELSE ConfigLoop(f.entries, 1, {}, <<>>, <<>>)

\* the dict built for the i-th system entry
SystemLog(e, i) ==
    [EntryNo |-> i, LogID |-> e.logid, Time |-> e.tg, Severity |-> e.severity]

\* the for loop of parse_saved_system_logs from entry i on
RECURSIVE SystemLoop(_, _, _, _)
SystemLoop(es, i, seen, logs) ==
    IF i > Len(es) THEN logs
    ELSE IF es[i].logid \in seen
         THEN SystemLoop(es, i + 1, seen, logs)
         ELSE SystemLoop(es, i + 1, seen \cup {es[i].logid},
                         Append(logs, SystemLog(es[i], i)))

\* parse_saved_system_logs: the new system_logs
ParsedSystem(f) ==
    IF ~f.exists \/ ~f.wellformed THEN <<>>
    ELSE SystemLoop(f.entries, 1, {}, <<>>)

-----------------------------------------------------------------------------
(* The menu builders: build_config_log_menu, build_system_log_menu,        *)
(* build_failed_commit_menu. A group is a key with the logs appended under  *)
(* it; a defaultdict keeps its keys in the order of their first insertion.  *)

\* the three log menus as clear_log_menus recreates them
NoMenus == [config |-> <<>>, system |-> <<>>, failed |-> <<>>]

\* s.startswith(p)
StartsWith(s, p) == Len(s) >= Len(p) /\ SubSeq(s, 1, Len(p)) = p

\* an append that starts a new group for every log
AppendToGroupAlwaysNew(groups, key, log) ==
    Append(groups, [key |-> key, logs |-> <<log>>])

\* groups[key].append(log)
AppendToGroup(groups, key, log) ==
    IF \E g \in 1..Len(groups) : groups[g].key = key
    THEN [g \in 1..Len(groups) |->
            IF groups[g].key = key
            THEN [key |-> key, logs |-> Append(groups[g].logs, log)]
            ELSE groups[g]]
    ELSE Append(groups, [key |-> key, logs |-> <<log>>])

\* for log in logs: groups[keys of log].append(log), from log i on
RECURSIVE GroupLoop(_, _, _, _)
GroupLoop(keys, logs, i, groups) ==
    IF i > Len(logs) THEN groups
    ELSE GroupLoop(keys, logs, i + 1, AppendToGroup(groups, keys[i], logs[i]))

\* the loop that groups by Admin (lines 876-881, 958-964) from log i on; with Hide
\* Panorama Users on, admin.startswith is called and raises when Admin is None
RECURSIVE AdminGroups(_, _, _, _)
AdminGroups(logs, i, hide, groups) ==
    IF i > Len(logs) THEN [error |-> "none", groups |-> groups]
    ELSE LET admin == logs[i].Admin
         IN  IF hide /\ admin = NoText
             THEN [error |-> "AttributeError", groups |-> groups]
             ELSE IF hide /\ StartsWith(TextOf(admin), PanoramaPrefix)
             THEN AdminGroups(logs, i + 1, hide, groups)
             ELSE AdminGroups(logs, i + 1, hide, AppendToGroup(groups, admin, logs[i]))

\* type_groups of one admin (lines 884-887)
TypeGroups(logs) ==
    GroupLoop([i \in 1..Len(logs) |-> logs[i].CommandType], logs, 1, <<>>)

\* the loop over admin_groups (lines 882-940) from group g on: an admin menu is
\* added once all its items are made; cmd_type.lower() raises when the Command
\* Type of a group is None
RECURSIVE AdminMenus(_, _, _)
AdminMenus(groups, g, menu) ==
    IF g > Len(groups) THEN [error |-> "none", menu |-> menu]
    ELSE LET types == TypeGroups(groups[g].logs)
         IN  IF \E k \in 1..Len(types) : types[k].key = NoText
             THEN [error |-> "AttributeError", menu |-> menu]
             ELSE AdminMenus(groups, g + 1,
                             Append(menu, [key |-> groups[g].key, types |-> types]))

\* build_config_log_menu: the admin menus added and the exception raised, if any
build_config_log_menu(logs, hide) ==
    LET grouped == AdminGroups(logs, 1, hide, <<>>)
    IN  IF grouped.error # "none" THEN [error |-> grouped.error, menu |-> <<>>]
        ELSE AdminMenus(grouped.groups, 1, <<>>)

\* build_system_log_menu: one submenu per Severity
build_system_log_menu(logs) ==
    GroupLoop([i \in 1..Len(logs) |-> logs[i].Severity], logs, 1, <<>>)

NoneWord == <<"n", "o", "n", "e">>

\* config_section and config_section.lower() != "none"
HasSection(log) ==
    /\ log.ConfigSection # NoText
    /\ TextOf(log.ConfigSection) # <<>>
    /\ Lower(TextOf(log.ConfigSection)) # NoneWord

\* the loop over groups of build_failed_commit_menu (lines 965-980) from group g
\* on: log.get('Command Type', '')[:20] raises when there is no usable Config
\* Section and Command Type is None
RECURSIVE FailedMenus(_, _, _)
FailedMenus(groups, g, menu) ==
    IF g > Len(groups) THEN [error |-> "none", menu |-> menu]
    ELSE IF \E k \in 1..Len(groups[g].logs) :
               ~HasSection(groups[g].logs[k]) /\ groups[g].logs[k].CommandType = NoText
         THEN [error |-> "TypeError", menu |-> menu]
         ELSE FailedMenus(groups, g + 1, Append(menu, groups[g]))

\* build_failed_commit_menu: the submenus added and the exception raised, if any
build_failed_commit_menu(logs, hide) ==
    LET grouped == AdminGroups(logs, 1, hide, <<>>)
    IN  IF grouped.error # "none" THEN [error |-> grouped.error, menu |-> <<>>]
        ELSE FailedMenus(grouped.groups, 1, <<>>)

\* submenus a menu is let to hold: toggle_hide_panorama_users adds to the menus
\* without end
MaxMenu == 6

\* menu.add(item) for each of the items in turn (lines 940, 980), the menu being one
\* that holds items already: nothing is cleared and nothing is looked up, every
\* item is added after the ones the menu holds
AddAll(menu, items) == menu \o items

\* the three builders in the order the callbacks call them (lines 534-536): the
\* first exception ends the sequence
BuildMenus(config, system, failed, hide) ==
    LET c == build_config_log_menu(config, hide)
        f == build_failed_commit_menu(failed, hide)
    IN  IF c.error # "none"
        THEN [error |-> c.error, menus |-> [NoMenus EXCEPT !.config = c.menu]]
        ELSE [error |-> f.error,
              menus |-> [config |-> c.menu, system |-> build_system_log_menu(system),
                         failed |-> f.menu]]

-----------------------------------------------------------------------------
(* search_logs: the matching loop *)

NoSearch == [term |-> <<>>, matches |-> <<>>]

Digits == <<"1", "2", "3", "4", "5", "6", "7", "8", "9">>

\* str(None)
NoneStr == <<"N", "o", "n", "e">>

\* str(value) of an optional text
Str(v) == IF v = NoText THEN NoneStr ELSE TextOf(v)

\* str(value) of a logid
StrLogId(n) == IF n = 0 THEN NoneStr ELSE <<Digits[n]>>

\* log.values() as their str(), in the order of the keys of the dict of lines
\* 813-825: Log ID, Received, Firewall Serial, Device Name, Source IP, Command Type,
\* Admin, Access Method, Result, Config Section, Full Path. The entries have no
\* receive_time, serial, device_name, host, client or full-path child, so findtext
\* gives None for these six keys
StrValues(log) ==
    <<StrLogId(log.LogID), NoneStr, NoneStr, NoneStr, NoneStr, Str(log.CommandType),
      Str(log.Admin), NoneStr, Str(log.Result), Str(log.ConfigSection), NoneStr>>

\* an inner loop without break: one append for every value that matches
RECURSIVE AppendsOfNoBreak(_, _, _)
AppendsOfNoBreak(term, values, v) ==
    IF v > Len(values) THEN 0
    ELSE (IF Contains(Lower(term), Lower(values[v])) THEN 1 ELSE 0)
            + AppendsOfNoBreak(term, values, v + 1)

\* for value in log.values(): if term.lower() in str(value).lower():
\* matches.append(log); break - the number of appends from value v on
RECURSIVE AppendsOf(_, _, _)
AppendsOf(term, values, v) ==
    IF v > Len(values) THEN 0
    ELSE IF Contains(Lower(term), Lower(values[v])) THEN 1
    ELSE AppendsOf(term, values, v + 1)

\* s followed by n times x
RECURSIVE AppendTimes(_, _, _)
AppendTimes(s, x, n) == IF n = 0 THEN s ELSE AppendTimes(Append(s, x), x, n - 1)

\* for log in self.config_logs (lines 238-243), from log i on
RECURSIVE SearchLoop(_, _, _, _)
SearchLoop(term, logs, i, found) ==
    IF i > Len(logs) THEN found
    ELSE SearchLoop(term, logs, i + 1,
                    AppendTimes(found, logs[i], AppendsOf(term, StrValues(logs[i]), 1)))

\* terms typed into the search dialog (stripped)
SearchTerms ==
    {<<>>, <<"a">>, <<"A">>, <<"z">>, <<"1">>, <<"E", "T">>, <<"f", "a", "i", "l">>,
     <<"n", "o", "n", "e">>}

-----------------------------------------------------------------------------
(* The appliance (remote log API) *)

\* number of history entries that stand for n log entries of the appliance
Scale(n) == (n * ChunkLen) \div NLogs

\* the entries a finished job returns for nlogs (0 = not given) and skip
ProviderWindow(hist, nlogs, skip) ==
    LET from == Scale(skip) + 1
        count == IF nlogs = 0 THEN DefaultLen ELSE Scale(nlogs)
        to == IF from + count - 1 > Len(hist) THEN Len(hist) ELSE from + count - 1
    IN  SubSeq(hist, from, to)

\* answers to the start request: transport error or unparseable body, status="error",
\* no job element, a job id
StartResponses == {"exception", "error", "nojob", "job"}

\* answers to a status check: transport error or unparseable body, or the status text
PollResponses == {"exception", "ACT", "NONE", "FIN", "FAIL"}

-----------------------------------------------------------------------------
(* Callbacks and the download calls they make *)

Call(fn, log_type, nlogs, skip) ==
    [fn |-> fn, log_type |-> log_type, nlogs |-> nlogs, skip |-> skip]

\* Sync 10000 that stops after its first chunk
CallsFirstChunkOnly(h) ==
    IF h = "pull_10000_logs" THEN
        << Call("download_and_merge_logs", "config", NLogs, 0),
           Call("download_and_merge_logs", "system", NLogs, 0) >>
    ELSE << Call("download_and_merge_logs", "config", 0, 0),
            Call("download_and_merge_logs", "system", 0, 0) >>

\* Sync 10000 that asks for the older chunk first
CallsSkipFirst(h) ==
    IF h = "pull_10000_logs" THEN
        << Call("download_and_merge_logs_with_skip", "config", NLogs, SkipSecond),
           Call("download_and_merge_logs_with_skip", "system", NLogs, SkipSecond),
           Call("download_and_merge_logs", "config", NLogs, 0),
           Call("download_and_merge_logs", "system", NLogs, 0) >>
    ELSE << Call("download_and_merge_logs", "config", 0, 0),
            Call("download_and_merge_logs", "system", 0, 0) >>

\* the download calls of a callback, in program order
Calls(h) ==
    IF h \in {"refresh_logs", "switch_to_panorama", "force_clear_and_reload_logs",
              "prompt_for_credentials"} THEN
        << Call("download_and_merge_logs", "config", 0, 0),
           Call("download_and_merge_logs", "system", 0, 0) >>
    ELSE IF h = "pull_extended_logs" THEN
        << Call("download_and_merge_logs", "config", NLogs, 0),
           Call("download_and_merge_logs", "system", NLogs, 0) >>
    ELSE IF h = "pull_10000_logs" THEN
        << Call("download_and_merge_logs", "config", NLogs, 0),
           Call("download_and_merge_logs", "system", NLogs, 0),
           Call("download_and_merge_logs_with_skip", "config", NLogs, SkipSecond),
           Call("download_and_merge_logs_with_skip", "system", NLogs, SkipSecond) >>
    ELSE << >>

CurrentCall == Calls(handler)[step]

CacheFile(log_type) == files[get_cache_file_path(panorama, log_type)]

StoreSizes == [t \in LogTypes |-> Len(CacheFile(t).entries)]

NoCall == [fn |-> "none", log_type |-> "none", skip |-> 0, status |-> "none",
           outcome |-> "none", fetched |-> <<>>, merged |-> 0]

\* a download call that has returned: the status it saw last, how it ended, the
\* entries of the FIN answer and len(new_entries)
Ended(call, st, outcome, fetched, merged) ==
    [fn |-> call.fn, log_type |-> call.log_type, skip |-> call.skip,
     status |-> st, outcome |-> outcome, fetched |-> fetched, merged |-> merged]

NoneDerived == [t \in LogTypes |-> FALSE]

SyncCallbacks == {"pull_extended_logs", "pull_10000_logs"}

NoPrev == [op |-> "none", size |-> [t \in LogTypes |-> 0]]

\* a text in the menu bar that is no progress text
Title(text) == [text |-> text, log_type |-> "none", skip |-> 0, progress |-> 0]

\* f"Fetching {log_type} logs... ({attempt + 1}/60)" (line 576) and, with the chunk
\* label of the call, line 689: the text is kept as its parts
Fetching(call, n) ==
    [text |-> <<>>, log_type |-> call.log_type, skip |-> call.skip, progress |-> n]

PanoramaLogs == <<"P", "a", "n", "o", "r", "a", "m", "a", " ", "L", "o", "g", "s">>

\* update_title (lines 1072-1082): the title it sets
update_title(icon, name) ==
    IF icon THEN Title(<<>>)
    ELSE IF name # <<>> THEN Title(name)
    ELSE Title(PanoramaLogs)

\* a polling loop that shows its progress in icon-only mode as well
ProgressShownAlways(icon) == TRUE

\* if not self.display_menu_icon (lines 575, 688)
ProgressShown(icon) == ~icon

\* the title after the status check of iteration attempt + 1 has been announced
ShownInLoop ==
    IF ProgressShown(display_menu_icon) THEN Fetching(CurrentCall, attempt + 1) ELSE title

\* a download call without the update_title of its end
TitleLeftByLoop(shown, icon, name) == shown

\* the title a download call leaves, shown being the title before its end:
\* update_title after the loop and in the finally clause (lines 642-649, 760-767)
TitleAfterCall(shown, icon, name) == update_title(icon, name)

\* save_config (lines 311-319): the content of the configuration file
Saved(regs, active, hide, icon) ==
    [exists |-> TRUE, panoramas |-> regs, active |-> active,
     hide_panorama_users |-> hide, display_menu_icon |-> icon]

\* no configuration file: what load_config takes in its place (lines 303-309)
NoConfigFile ==
    [exists |-> FALSE, panoramas |-> <<>>, active |-> <<>>,
     hide_panorama_users |-> FALSE, display_menu_icon |-> FALSE]

\* the download call returns to the callback: next call, or the parsing tail
ReturnToCallback(ended) ==
    /\ last' = ended
    /\ all_merged' = (all_merged /\ last'.outcome = "merged")
    /\ job_id' = 0
    /\ attempt' = 0
    /\ status' = "none"
    /\ IF step < Len(Calls(handler))
       THEN step' = step + 1 /\ pc' = "start"
       ELSE step' = step /\ pc' = "parse"

\* entry of a callback that downloads: lists cleared, first call next
BeginSync(h) ==
    /\ handler' = h
    /\ step' = 1
    /\ pc' = "start"
    /\ attempt' = 0
    /\ job_id' = 0
    /\ status' = "none"
    /\ alert' = "none"
    /\ all_merged' = TRUE
    /\ config_logs' = <<>>
    /\ system_logs' = <<>>
    /\ failed_commits' = <<>>
    /\ derived' = NoneDerived
    /\ menus' = NoMenus
    /\ error' = "none"

\* the cache directory without the two cache files of the profile
WithoutStore(fs, name) ==
    [p \in DOMAIN fs |->
        IF \E t \in LogTypes : p = get_cache_file_path(name, t) THEN NoFile ELSE fs[p]]

\* clear_cache_files(panorama_name) (lines 120-141): the two cache files of the
\* name or, when the name is None or empty, every .xml file of the cache directory
clear_cache_files(fs, name) ==
    IF name # <<>> THEN WithoutStore(fs, name) ELSE [p \in DOMAIN fs |-> NoFile]

\* a refresh that downloads whatever the session is
NeedsCredentialsNever(key, name) == FALSE

\* if not self.api_key or not self.panorama (line 508): 0 stands for None and ""
NeedsCredentials(key, name) == key = 0 \/ name = <<>>

\* the callback h opens the login dialog of prompt_for_credentials after raising
\* the alert box shown ("none" for no box); the lists have been cleared before
OpenLogin(h, shown, fs, ms) ==
    /\ handler' = h
    /\ menus' = ms
    /\ error' = "none"
    /\ pc' = "login"
    /\ alert' = shown
    /\ config_logs' = <<>>
    /\ system_logs' = <<>>
    /\ failed_commits' = <<>>
    /\ derived' = NoneDerived
    /\ files' = fs
    /\ UNCHANGED <<step, attempt, job_id, status, all_merged, fromEmpty>>

\* refresh_logs (lines 502-527) run as callback h for the profile name with the
\* session token key, the cache directory being fs and the menus ms: clears the
\* lists, asks for credentials when there is no session, else clears the menus,
\* deletes both cache files of the profile and starts downloading
RefreshFor(h, name, key, fs, ms) ==
    /\ IF NeedsCredentials(key, name)
       THEN OpenLogin(h, "none", fs, ms)
       ELSE /\ BeginSync(h)
            /\ files' = WithoutStore(fs, name)
            /\ fromEmpty' = [t \in LogTypes |->
                               files[get_cache_file_path(name, t)].entries = <<>>]
    /\ prev' = NoPrev

\* refresh_logs as the menu callback "Refresh Logs"
refresh_logs ==
    /\ pc = "idle"
    /\ RefreshFor("refresh_logs", panorama, api_key, files, menus)
    /\ UNCHANGED <<panoramas, panorama, api_key, remote, act_limit, last>>
    /\ UNCHANGED <<hide_panorama_users, display_menu_icon, switch_menu, title, saved, search>>

\* force_clear_and_reload_logs (lines 1084-1087): clear_cache_files(self.panorama),
\* then refresh_logs
force_clear_and_reload_logs ==
    /\ pc = "idle"
    /\ RefreshFor("force_clear_and_reload_logs", panorama, api_key,
                  clear_cache_files(files, panorama), menus)
    /\ UNCHANGED <<panoramas, panorama, api_key, remote, act_limit, last>>
    /\ UNCHANGED <<hide_panorama_users, display_menu_icon, switch_menu, title, saved, search>>

\* a menu that dispatches a callback while another callback is still running
MainLoopBusyToo == TRUE

\* the menu dispatches a callback (line 1188) only between callbacks: the program
\* starts no thread and no timer, and a running callback blocks in requests.get
\* and time.sleep (lines 638, 756) until its downloads have returned
MainLoopIdle == pc = "idle"

\* switch_to_panorama(name) (lines 1211-1249), the callback of the item the Switch
\* Panorama submenu holds for the name (line 1188): the lists and the menus are
\* cleared and the name becomes the active one; an entry that is not a dict (or no
\* entry) raises "Invalid config" and opens the login dialog, the token in use
\* staying what it was; else the token of the entry (None when the entry has none)
\* becomes the one in use, the configuration is saved, the submenu rebuilt, then
\* refresh_logs
switch_to_panorama(name) ==
    /\ MainLoopIdle
    /\ name \in switch_menu
    /\ panorama' = name
    /\ IF ~IsDict(PanoramasGet(panoramas, name))
       THEN /\ api_key' = api_key
            /\ OpenLogin("switch_to_panorama", "Invalid config", files, NoMenus)
            /\ prev' = prev
            /\ UNCHANGED <<title, saved, switch_menu>>
       ELSE /\ api_key' = InfoGet(panoramas[name])
            /\ saved' = Saved(panoramas, name, hide_panorama_users, display_menu_icon)
            /\ title' = update_title(display_menu_icon, name)
            /\ switch_menu' = DOMAIN panoramas
            /\ RefreshFor("switch_to_panorama", name, InfoGet(panoramas[name]), files,
                          NoMenus)
    /\ UNCHANGED <<panoramas, remote, act_limit, last>>
    /\ UNCHANGED <<hide_panorama_users, display_menu_icon, search>>

\* the dialogs of prompt_for_credentials (AppleScript) and, when AppleScript raises,
\* of prompt_for_credentials_fallback (rumps windows)
LoginDialogs == {"applescript", "fallback"}

\* answers to the login dialog and the keygen request behind it: a dialog dismissed
\* or left empty, a dialog timed out (AppleScript only), no key returned, an
\* unparseable answer or a transport error, a key
LoginOutcomes(dialog) ==
    IF dialog = "applescript" THEN {"dismissed", "timeout", "failed", "key"}
    ELSE {"dismissed", "failed", "key"}

\* the alert box on top when a login has ended without a key, shown being the one
\* before: "Timeout" (line 433), "Login Failed" (lines 452, 466, 488, 500), or no new box
LoginAlert(outcome, shown) ==
    IF outcome = "failed" THEN "Login Failed"
    ELSE IF outcome = "timeout" THEN "Timeout" ELSE shown

\* key = root.findtext(".//key") (lines 450, 486): 0 stands for None and ""
KeyOf(outcome, key) == IF outcome = "key" THEN key ELSE 0

\* a login that writes the entry whatever the key is
RegistryAfterLoginUnchecked(regs, name, key) ==
    [n \in DOMAIN regs \cup {name} |-> IF n = name THEN Info(key) ELSE regs[n]]

\* if key: self.panoramas[panorama] = {"api_key": key, "id": new_id} (lines 455-457,
\* 490-491): the registry after the keygen answer
RegistryAfterLogin(regs, name, key) ==
    IF key = 0 THEN regs
    ELSE [n \in DOMAIN regs \cup {name} |-> IF n = name THEN Info(key) ELSE regs[n]]

\* prompt_for_credentials (lines 321-466), called by refresh_logs or
\* switch_to_panorama (pc = "login") or as the callback of "Add New Panorama" (line
\* 1195): without a key the callback ends, with the alert box of the failure if any;
\* with a key the entry of the name entered is written, the name and the key become
\* the active ones, the configuration is saved, the Switch Panorama submenu rebuilt,
\* then refresh_logs runs inside prompt_for_credentials; names are the names the
\* user may type into the dialog
prompt_for_credentials(names) ==
    /\ pc \in {"idle", "login"}
    /\ \E dialog \in LoginDialogs : \E outcome \in LoginOutcomes(dialog) :
       \E name \in names : \E key \in LoginKeys :
         /\ panoramas' = RegistryAfterLogin(panoramas, name, KeyOf(outcome, key))
         /\ IF KeyOf(outcome, key) # 0
            THEN /\ panorama' = name
                 /\ api_key' = key
                 /\ saved' = Saved(panoramas', name, hide_panorama_users,
                                   display_menu_icon)
                 /\ title' = update_title(display_menu_icon, name)
                 /\ switch_menu' = DOMAIN panoramas'
                 /\ RefreshFor("prompt_for_credentials", name, key, files, menus)
            ELSE /\ handler' = "idle"
                 /\ pc' = "idle"
                 /\ alert' = LoginAlert(outcome, alert)
                 /\ UNCHANGED <<panorama, api_key, files, config_logs, failed_commits,
                                system_logs, step, attempt, job_id, status, all_merged,
                                fromEmpty, derived, prev, menus, error, title, saved,
                                switch_menu>>
    /\ UNCHANGED <<remote, act_limit, last, hide_panorama_users, display_menu_icon, search>>

\* pull_extended_logs (lines 769-781)
pull_extended_logs ==
    /\ pc = "idle"
    /\ BeginSync("pull_extended_logs")
    /\ fromEmpty' = [t \in LogTypes |-> CacheFile(t).entries = <<>>]
    /\ UNCHANGED <<panoramas, panorama, api_key, files, remote, act_limit, last, prev>>
    /\ UNCHANGED <<hide_panorama_users, display_menu_icon, switch_menu, title, saved, search>>

\* pull_10000_logs (lines 173-193)
pull_10000_logs ==
    /\ pc = "idle"
    /\ BeginSync("pull_10000_logs")
    /\ fromEmpty' = [t \in LogTypes |-> CacheFile(t).entries = <<>>]
    /\ UNCHANGED <<panoramas, panorama, api_key, files, remote, act_limit, last, prev>>
    /\ UNCHANGED <<hide_panorama_users, display_menu_icon, switch_menu, title, saved, search>>

\* job_id = root.findtext(".//job") of the answer to the start request
JobOf(r) == IF r = "job" THEN 1 ELSE 0

\* a start request that goes on to poll whatever job id the answer carries
StartProceedsWithoutJob(r) == r # "exception" /\ r # "error"

\* the start request is followed by the polling loop: the answer was received and
\* parsed, its status is not "error" and it carries a job id (lines 548-562)
StartProceeds(r) == r # "exception" /\ r # "error" /\ JobOf(r) # 0

\* the start request of a download call (lines 546-562, 658-674)
StartRequest ==
    /\ pc = "start"
    /\ \E r \in StartResponses :
         IF StartProceeds(r)
         THEN /\ job_id' = JobOf(r)
              /\ status' = "success"
              /\ pc' = "poll"
              /\ attempt' = 0
              /\ last' = NoCall
              /\ UNCHANGED <<step, all_merged>>
         ELSE ReturnToCallback(Ended(CurrentCall, "none",
                  IF r = "error" THEN "api_error"
                  ELSE IF r = "exception" THEN "exception" ELSE "no_job", <<>>, 0))
    /\ title' = IF pc' = "poll" THEN title
                ELSE TitleAfterCall(title, display_menu_icon, panorama)
    /\ saved' = saved
    /\ UNCHANGED <<panoramas, panorama, api_key, files, remote, act_limit, config_logs,
                   failed_commits, system_logs, handler, alert, fromEmpty, derived, prev>>
    /\ UNCHANGED <<hide_panorama_users, display_menu_icon, switch_menu, menus, error, search>>

\* new_entries of the running call, by the function that runs it
NewEntriesOf(call, f, fetched) ==
    IF call.fn = "download_and_merge_logs_with_skip"
    THEN NewEntriesWithSkip(f, fetched, call.skip)
    ELSE NewEntries(f, fetched)

\* a polling loop that leaves only on FIN
LoopContinuesAfterFail(st) == st # "FIN"

\* the polling loop goes on after this status: neither the FIN nor the FAIL branch
\* with its break is taken (lines 585, 633, 638)
LoopContinues(st) == st # "FIN" /\ st # "FAIL"

\* a status check that merges the log of a failed job as well
JobFinishedOrFailed(st) == st = "FIN" \/ st = "FAIL"

\* if status == "FIN" (lines 585, 697): the branch that filters and merges
JobFinished(st) == st = "FIN"

\* a polling loop without a last iteration
LoopNeverExhausted(n) == FALSE

\* range(60) is used up after n iterations
LoopExhausted(n) == n >= MaxPolls

\* one iteration of the polling loop (lines 573-640, 685-758)
PollJob ==
    /\ pc = "poll"
    /\ attempt < MaxPolls
    /\ \E call \in {CurrentCall} :
       \E path \in {get_cache_file_path(panorama, call.log_type)} :
       \E r \in PollResponses :
         IF r = "exception"
         THEN /\ ReturnToCallback(Ended(call, "none", "exception", <<>>, 0))
              /\ UNCHANGED files
         ELSE IF LoopContinues(r)
         THEN /\ attempt < act_limit
              /\ UNCHANGED files
              /\ IF LoopExhausted(attempt + 1)
                 THEN ReturnToCallback(Ended(call, r, "timeout", <<>>, 0))
                 ELSE /\ attempt' = attempt + 1
                      /\ status' = r
                      /\ UNCHANGED <<step, pc, job_id, last, all_merged>>
         ELSE IF JobFinished(r)
         THEN \E fetched \in {ProviderWindow(remote[call.log_type], call.nlogs, call.skip)} :
              \E new \in {NewEntriesOf(call, files[path], fetched)} :
              \E res \in {MergeResult(files[path], new)} :
                  /\ Len(res.file.entries) <= MaxStore
                  /\ files' = [files EXCEPT ![path] = res.file]
                  /\ ReturnToCallback(Ended(call, r,
                         IF res.raised THEN "exception" ELSE "merged", fetched,
                         IF res.raised THEN 0 ELSE Len(new)))
         ELSE /\ ReturnToCallback(Ended(call, "FAIL", "failed", <<>>, 0))
              /\ UNCHANGED files
    /\ title' = IF pc' = "poll" THEN ShownInLoop
                ELSE TitleAfterCall(ShownInLoop, display_menu_icon, panorama)
    /\ saved' = saved
    /\ UNCHANGED <<panoramas, panorama, api_key, remote, act_limit, config_logs,
                   failed_commits, system_logs, handler, alert, fromEmpty, derived, prev>>
    /\ UNCHANGED <<hide_panorama_users, display_menu_icon, switch_menu, menus, error, search>>

\* the alert a downloading callback raises at its end, err being the exception of
\* its menu builders: the sync callbacks raise "Sync Complete" (lines 203, 789) or,
\* in their except clause, "Sync Failed" (lines 205, 791); refresh_logs raises none,
\* but inside prompt_for_credentials the exception is caught as "Login Failed"
\* (lines 464-466)
AlertAtEnd(h, err) ==
    IF h \in SyncCallbacks THEN (IF err = "none" THEN "Sync Complete" ELSE "Sync Failed")
    ELSE IF h = "prompt_for_credentials" /\ err # "none" THEN "Login Failed"
    ELSE "none"

\* the tail of a downloading callback: parse both cache files, rebuild the menus
FinishSync ==
    /\ pc = "parse"
    /\ \E parsed \in {ParsedConfig(CacheFile("config"), failed_commits)} :
       \E system \in {ParsedSystem(CacheFile("system"))} :
       \E built \in {BuildMenus(parsed.config_logs, system, parsed.failed_commits,
                                hide_panorama_users)} :
           /\ config_logs' = parsed.config_logs
           /\ failed_commits' = parsed.failed_commits
           /\ system_logs' = system
           /\ menus' = built.menus
           /\ error' = built.error
           /\ alert' = AlertAtEnd(handler, built.error)
    /\ derived' = [t \in LogTypes |-> TRUE]
    /\ prev' = IF all_merged /\ handler \in SyncCallbacks
               THEN [op |-> handler, size |-> StoreSizes] ELSE NoPrev
    /\ handler' = "idle"
    /\ pc' = "idle"
    /\ step' = 0
    /\ last' = NoCall
    /\ all_merged' = TRUE
    /\ fromEmpty' = [t \in LogTypes |-> TRUE]
    /\ UNCHANGED <<panoramas, panorama, api_key, files, remote, act_limit, attempt,
                   job_id, status>>
    /\ UNCHANGED <<hide_panorama_users, display_menu_icon, switch_menu, title, saved, search>>

\* clear_all_cache -> clear_cache_files(): every .xml file of the cache directory
clear_all_cache ==
    /\ pc = "idle"
    /\ files' = clear_cache_files(files, <<>>)
    /\ alert' = "Cache Cleared"
    /\ prev' = NoPrev
    /\ derived' = NoneDerived
    /\ UNCHANGED <<panoramas, panorama, api_key, remote, act_limit, config_logs,
                   failed_commits, system_logs, handler, step, pc, attempt, job_id,
                   status, last, all_merged, fromEmpty>>
    /\ UNCHANGED <<hide_panorama_users, display_menu_icon, switch_menu, title, saved, menus, error, search>>

\* the alert boxes that may be on top when show_entry_details or
\* show_system_entry_details returns (lines 982-1033), shown being the one before:
\* the window closed, or the details copied, or pbcopy failed
DetailAlerts(shown) == {shown, "Copied", "Copy Failed"}

\* search_logs (lines 207-290): a dialog that times out raises "Timeout"; a dialog
\* cancelled or an empty term ends the callback; no match raises the alert "No
\* matching entries found."; else the matches are exported, "Search Results
\* Exported" is raised and the entry chosen from the matches, if one is chosen, is
\* shown by show_entry_details; terms are the terms the user may type
search_logs(terms) ==
    /\ pc = "idle"
    /\ \/ alert' = "Timeout" /\ search' = search
       \/ \E term \in terms :
            IF term = <<>> THEN UNCHANGED <<search, alert>>
            ELSE \E found \in {SearchLoop(term, config_logs, 1, <<>>)} :
                     /\ search' = [term |-> term, matches |-> found]
                     /\ alert' \in IF found = <<>> THEN {"No matching entries found."}
                                   ELSE DetailAlerts("Search Results Exported")
    /\ UNCHANGED <<panoramas, panorama, api_key, files, remote, act_limit, config_logs,
                   failed_commits, system_logs, handler, step, pc, attempt, job_id,
                   status, last, all_merged, fromEmpty, derived, prev,
                   hide_panorama_users, display_menu_icon, switch_menu, title, saved, menus, error>>

\* parse_saved_config_logs as the menu callback "Parse Saved Config Logs"
parse_saved_config_logs ==
    /\ pc = "idle"
    /\ \E parsed \in {ParsedConfig(CacheFile("config"), failed_commits)} :
           /\ config_logs' = parsed.config_logs
           /\ failed_commits' = parsed.failed_commits
    /\ derived' = [derived EXCEPT !["config"] = TRUE]
    /\ alert' = "none"
    /\ UNCHANGED <<panoramas, panorama, api_key, files, remote, act_limit, system_logs,
                   handler, step, pc, attempt, job_id, status, last, all_merged,
                   fromEmpty, prev>>
    /\ UNCHANGED <<hide_panorama_users, display_menu_icon, switch_menu, title, saved, menus, error, search>>

\* parse_saved_system_logs, applied to the cache file as it is
parse_saved_system_logs ==
    /\ pc = "idle"
    /\ system_logs' = ParsedSystem(CacheFile("system"))
    /\ derived' = [derived EXCEPT !["system"] = TRUE]
    /\ alert' = "none"
    /\ UNCHANGED <<panoramas, panorama, api_key, files, remote, act_limit, config_logs,
                   failed_commits, handler, step, pc, attempt, job_id, status, last,
                   all_merged, fromEmpty, prev>>
    /\ UNCHANGED <<hide_panorama_users, display_menu_icon, switch_menu, title, saved, menus, error, search>>

\* toggle_hide_panorama_users (lines 1035-1046): the setting is flipped and saved,
\* build_config_log_menu and build_failed_commit_menu add their submenus to the
\* menus as they are (the menu items have no attribute menu, lines 874 and 956 clear
\* nothing), then "Setting Updated"; an exception of a builder ends the callback
\* before the alert
toggle_hide_panorama_users ==
    /\ pc = "idle"
    /\ hide_panorama_users' = ~hide_panorama_users
    /\ saved' = Saved(panoramas, panorama, hide_panorama_users', display_menu_icon)
    /\ \E c \in {build_config_log_menu(config_logs, hide_panorama_users')} :
       \E f \in {build_failed_commit_menu(failed_commits, hide_panorama_users')} :
           /\ menus' = IF c.error # "none"
                       THEN [menus EXCEPT !.config = AddAll(@, c.menu)]
                       ELSE [menus EXCEPT !.config = AddAll(@, c.menu),
                                          !.failed = AddAll(@, f.menu)]
           /\ error' = IF c.error # "none" THEN c.error ELSE f.error
    /\ Len(menus'.config) <= MaxMenu
    /\ Len(menus'.failed) <= MaxMenu
    /\ alert' = IF error' = "none" THEN "Setting Updated" ELSE alert
    /\ UNCHANGED <<panoramas, panorama, api_key, files, remote, act_limit, config_logs,
                   failed_commits, system_logs, handler, step, pc, attempt, job_id,
                   status, last, all_merged, fromEmpty, derived, prev>>
    /\ UNCHANGED <<display_menu_icon, switch_menu, title, search>>

\* toggle_display_menu_icon (lines 1055-1063)
toggle_display_menu_icon ==
    /\ pc = "idle"
    /\ display_menu_icon' = ~display_menu_icon
    /\ saved' = Saved(panoramas, panorama, hide_panorama_users, display_menu_icon')
    /\ title' = update_title(display_menu_icon', panorama)
    /\ alert' = "Setting Updated"
    /\ UNCHANGED <<panoramas, panorama, api_key, files, remote, act_limit, config_logs,
                   failed_commits, system_logs, handler, step, pc, attempt, job_id,
                   status, last, all_merged, fromEmpty, derived, prev>>
    /\ UNCHANGED <<hide_panorama_users, switch_menu, menus, error, search>>

\* clear_credentials (lines 1089-1099): the configuration file and every cache file
\* are removed and the session is forgotten; the lists, the log menus and the items
\* of the Switch Panorama submenu stay
clear_credentials ==
    /\ pc = "idle"
    /\ saved' = NoConfigFile
    /\ files' = clear_cache_files(files, <<>>)
    /\ api_key' = 0
    /\ panoramas' = <<>>
    /\ panorama' = <<>>
    /\ title' = update_title(display_menu_icon, panorama')
    /\ alert' = "Credentials and cache cleared. Restart app."
    /\ prev' = NoPrev
    /\ derived' = NoneDerived
    /\ UNCHANGED <<remote, act_limit, config_logs, failed_commits, system_logs, handler,
                   step, pc, attempt, job_id, status, last, all_merged, fromEmpty>>
    /\ UNCHANGED <<hide_panorama_users, display_menu_icon, switch_menu, menus, error, search>>

\* show_entry_details (lines 982-1008) and show_system_entry_details (lines
\* 1010-1033) as the callbacks of the items of the log menus (lines 937, 952, 979):
\* a window with the fields of the entry, which changes nothing but the alert box
show_entry_details ==
    /\ pc = "idle"
    /\ menus # NoMenus
    /\ alert' \in DetailAlerts(alert)
    /\ UNCHANGED <<panoramas, panorama, api_key, files, remote, act_limit, config_logs,
                   failed_commits, system_logs, handler, step, pc, attempt, job_id,
                   status, last, all_merged, fromEmpty, derived, prev>>
    /\ UNCHANGED <<hide_panorama_users, display_menu_icon, switch_menu, title, saved, menus,
                   error, search>>

\* show_about (lines 1101-1113)
show_about ==
    /\ pc = "idle"
    /\ alert' = "About - Panorama Log Viewer"
    /\ UNCHANGED <<panoramas, panorama, api_key, files, remote, act_limit, config_logs,
                   failed_commits, system_logs, handler, step, pc, attempt, job_id,
                   status, last, all_merged, fromEmpty, derived, prev>>
    /\ UNCHANGED <<hide_panorama_users, display_menu_icon, switch_menu, title, saved, menus,
                   error, search>>

\* show_help (lines 1115-1163)
show_help ==
    /\ pc = "idle"
    /\ alert' = "Help - Panorama Log Viewer"
    /\ UNCHANGED <<panoramas, panorama, api_key, files, remote, act_limit, config_logs,
                   failed_commits, system_logs, handler, step, pc, attempt, job_id,
                   status, last, all_merged, fromEmpty, derived, prev>>
    /\ UNCHANGED <<hide_panorama_users, display_menu_icon, switch_menu, title, saved, menus,
                   error, search>>

\* the content of a cache file of the active profile is damaged on disk and no
\* longer parses as XML
cache_file_damaged ==
    /\ pc = "idle"
    /\ \E t \in LogTypes :
         /\ CacheFile(t).exists
         /\ CacheFile(t).wellformed
         /\ files' = [files EXCEPT ![get_cache_file_path(panorama, t)] = CorruptFile]
         /\ derived' = [derived EXCEPT ![t] = FALSE]
    /\ UNCHANGED <<panoramas, panorama, api_key, remote, act_limit, config_logs,
                   failed_commits, system_logs, handler, step, pc, attempt, job_id,
                   status, alert, last, all_merged, fromEmpty, prev>>
    /\ UNCHANGED <<hide_panorama_users, display_menu_icon, switch_menu, title, saved, menus, error, search>>
-----------------------------------------------------------------------------
(* Specifications *)

\* histories of the appliance with stamps from S: logids are distinct, newest first
Histories(S) ==
    {h \in SeqsUpTo({RawEntry(l, t, FALSE, NoText) : l \in 1..HistLen, t \in S}, HistLen) :
        \A i \in 1..Len(h) : h[i].logid = Len(h) - i + 1}

(* __init__ (lines 17-88) loads the configuration, builds the menu and ends with  *)
(* refresh_logs(None): the initial states are the states in which __init__ has    *)
(* returned, for the configuration file, the cache directory and the appliance    *)
(* a specification draws.                                                         *)

\* the settings and what __init__ derives from them: load_config has read the
\* configuration file (lines 292-302), update_title has set the title (line 52),
\* build_switch_panorama_menu has made an item for every profile (line 70)
InitSettings(icon) ==
    /\ display_menu_icon = icon
    /\ title = update_title(icon, panorama)
    /\ saved = Saved(panoramas, panorama, hide_panorama_users, icon)
    /\ switch_menu = DOMAIN panoramas

\* no callback is running, and the last one was no sync and no search
Quiet ==
    /\ status = "none"
    /\ handler = "idle"
    /\ step = 0
    /\ pc = "idle"
    /\ attempt = 0
    /\ job_id = 0
    /\ last = NoCall
    /\ all_merged = TRUE
    /\ fromEmpty = [t \in LogTypes |-> TRUE]
    /\ prev = NoPrev
    /\ search = NoSearch

\* the cache file a download call of refresh_logs leaves when its job has finished:
\* the window the appliance returns without nlogs, filtered and merged into the file
\* refresh_logs has deleted
Downloaded(rem, t) ==
    MergeResult(NoFile, NewEntries(NoFile, ProviderWindow(rem[t], 0, 0))).file

\* the cache directories refresh_logs may leave, disk being the directory it found:
\* for each log type of the profile the download has merged or, the job not
\* finished or not started, left no file
FilesAfterRefresh(disk, name, rem) ==
    {[p \in DOMAIN disk |->
         IF p = get_cache_file_path(name, "config") THEN c
         ELSE IF p = get_cache_file_path(name, "system") THEN s
         ELSE disk[p]] :
       c \in {NoFile, Downloaded(rem, "config")}, s \in {NoFile, Downloaded(rem, "system")}}

\* refresh_logs(None) (line 88) has run to its end in the frame of h, which is
\* refresh_logs when the configuration held a session and prompt_for_credentials
\* when the session is one the login dialog of __init__ has opened: the downloads
\* are over, both cache files parsed and the menus built; an exception of a menu
\* builder that is not caught by prompt_for_credentials ends __init__, so there is
\* no such initial state
Refreshed(h, disk) ==
    /\ files \in FilesAfterRefresh(disk, panorama, remote)
    /\ \E parsed \in {ParsedConfig(CacheFile("config"), <<>>)} :
       \E system \in {ParsedSystem(CacheFile("system"))} :
       \E built \in {BuildMenus(parsed.config_logs, system, parsed.failed_commits,
                                hide_panorama_users)} :
           /\ h = "refresh_logs" => built.error = "none"
           /\ config_logs = parsed.config_logs
           /\ failed_commits = parsed.failed_commits
           /\ system_logs = system
           /\ menus = built.menus
           /\ error = built.error
           /\ alert = AlertAtEnd(h, built.error)
    /\ derived = [t \in LogTypes |-> TRUE]
    /\ Quiet

\* refresh_logs(None) (line 88) found no session (line 508) and the login dialog it
\* opened ended without a key in one of the ways named: the lists are empty, the
\* cache directory is as it was found
LoginRefused(disk, outcomes) ==
    /\ files = disk
    /\ alert \in {LoginAlert(o, "none") : o \in outcomes}
    /\ config_logs = <<>>
    /\ failed_commits = <<>>
    /\ system_logs = <<>>
    /\ menus = NoMenus
    /\ error = "none"
    /\ derived = NoneDerived
    /\ Quiet

\* the configuration file holds one profile with its token, and it is the active one
InitProgram ==
    /\ panorama \in ProfileNames
    /\ api_key = 1
    /\ panoramas = [n \in {panorama} |-> Info(api_key)]
    /\ hide_panorama_users = FALSE
    /\ InitSettings(FALSE)

\* the configuration file names an active profile whose entry has no token
InitWithoutToken ==
    /\ panorama \in ProfileNames
    /\ api_key = 0
    /\ panoramas = [n \in {panorama} |-> DictWithoutKey]

(* The program with its whole menu *)

\* terms typed into the search dialog: none, one that matches a logid, one that
\* matches nothing
MenuTerms == {<<>>, <<"1">>, <<"z">>}

\* names a cache file can be named after: those a login can make active and the
\* empty name of a program without profile
MenuNames == ProfileNames \cup {<<>>}
MenuPaths == {get_cache_file_path(n, t) : n \in MenuNames, t \in LogTypes}

\* load_config has found no configuration file (lines 303-309)
InitNoConfigFile ==
    /\ panoramas = <<>>
    /\ panorama = <<>>
    /\ api_key = 0
    /\ hide_panorama_users = FALSE
    /\ display_menu_icon = FALSE
    /\ title = update_title(FALSE, <<>>)
    /\ saved = NoConfigFile
    /\ switch_menu = {}

\* the program has been started without a configuration file and its login dialog
\* has ended without a key, or with the configuration file of one profile; the
\* cache directory was empty; the appliance has a history of config entries
Init ==
    /\ remote = [t \in LogTypes |-> IF t = "config" THEN <<RawEntry(1, 1, FALSE, NoText)>> ELSE <<>>]
    /\ act_limit = 1
    /\ \/ /\ InitNoConfigFile
          /\ LoginRefused([p \in MenuPaths |-> NoFile], {"dismissed", "timeout", "failed"})
       \/ /\ InitProgram
          /\ Refreshed("refresh_logs", [p \in MenuPaths |-> NoFile])

\* the callbacks of the menu (lines 36-81, 937-979, 1188-1203) and the steps of a
\* callback that downloads
Next ==
    \/ show_about
    \/ show_help
    \/ toggle_hide_panorama_users
    \/ toggle_display_menu_icon
    \/ refresh_logs
    \/ parse_saved_config_logs
    \/ force_clear_and_reload_logs
    \/ pull_extended_logs
    \/ pull_10000_logs
    \/ clear_all_cache
    \/ \E n \in ProfileNames : switch_to_panorama(n)
    \/ prompt_for_credentials(ProfileNames)
    \/ clear_credentials
    \/ search_logs(MenuTerms)
    \/ show_entry_details
    \/ StartRequest
    \/ PollJob
    \/ FinishSync

Spec == Init /\ [][Next]_vars

-----------------------------------------------------------------------------
(* The synchronisation engine against a fixed appliance history: one log type *)
(* has an arbitrary history, the other no entry or one                        *)

InitSync ==
    /\ InitProgram
    /\ remote \in {r \in [LogTypes -> Histories(0..MaxTime)] :
                      \E t \in LogTypes : r[t] \in Histories({1}) /\ Len(r[t]) <= 1}
    /\ act_limit = MaxDelay
    /\ Refreshed("refresh_logs", [p \in CachePaths |-> NoFile])

NextSync ==
    \/ refresh_logs
    \/ pull_extended_logs
    \/ pull_10000_logs
    \/ StartRequest
    \/ PollJob
    \/ FinishSync
    \/ clear_all_cache
    \/ parse_saved_config_logs

SpecSync == InitSync /\ [][NextSync]_vars

(* Normalisation of a cache file drawn from bounded sets *)

ResultChoices == {NoText, Text(CommitFailed), Text(UpperFail), Text(CommitSucceeded)}

\* the raw entries a cache file of the log type may hold
RawEntries(t) ==
    IF t = "config"
    THEN {RawEntry(l, 1, FALSE, res) : l \in 0..MaxLogId, res \in ResultChoices}
    ELSE {RawEntry(l, tg, FALSE, NoText) : l \in 0..MaxLogId, tg \in 0..1}

\* the entry of the active profile has no token and the login dialog was dismissed:
\* one cache file of the profile is as an earlier run has left it
InitNormalize ==
    /\ InitWithoutToken
    /\ hide_panorama_users = FALSE
    /\ InitSettings(FALSE)
    /\ remote = [t \in LogTypes |-> <<>>]
    /\ act_limit = MaxDelay
    /\ \E t \in LogTypes :
         \E es \in SeqsUpTo(RawEntries(t), MaxRaw) :
            LoginRefused([p \in CachePaths |->
                            IF p = get_cache_file_path(panorama, t) THEN StoreFile(es)
                            ELSE NoFile], {"dismissed"})

NextNormalize ==
    \/ parse_saved_config_logs
    \/ parse_saved_system_logs
    \/ clear_all_cache

SpecNormalize == InitNormalize /\ [][NextNormalize]_vars

(* The synchronisation engine when a cache file gets damaged on disk and is no *)
(* longer XML                                                                  *)

InitCorrupt ==
    /\ InitProgram
    /\ remote \in [LogTypes -> Histories({1})]
    /\ act_limit = MaxDelay
    /\ Refreshed("refresh_logs", [p \in CachePaths |-> NoFile])

NextCorrupt ==
    \/ NextSync
    \/ cache_file_damaged

SpecCorrupt == InitCorrupt /\ [][NextCorrupt]_vars

(* Normalisation of cache files that get damaged on disk *)

NextLoad ==
    \/ parse_saved_config_logs
    \/ parse_saved_system_logs
    \/ cache_file_damaged

SpecLoad == InitNormalize /\ [][NextLoad]_vars

(* Sync 10000 against an appliance that may keep a job active through the *)
(* whole polling loop                                                      *)

InitPolling ==
    /\ InitProgram
    /\ remote \in {r \in [LogTypes -> Histories({1})] : r["system"] = <<>>}
    /\ act_limit = MaxPolls
    /\ Refreshed("refresh_logs", [p \in CachePaths |-> NoFile])

NextPolling ==
    \/ pull_10000_logs
    \/ StartRequest
    \/ PollJob
    \/ FinishSync

SpecPolling == InitPolling /\ [][NextPolling]_vars

\* a running callback is not suspended for ever: requests are answered or fail
SpecPollingFair ==
    SpecPolling /\ WF_vars(StartRequest) /\ WF_vars(PollJob) /\ WF_vars(FinishSync)

(* Sync 10000 in both title modes, with an active profile or, as after a    *)
(* start without one and a login dialog dismissed, without                  *)

TitleNames == ProfileNames \cup {<<>>}
TitlePaths == {get_cache_file_path(n, t) : n \in TitleNames, t \in LogTypes}

\* load_config (lines 292-309): the configuration file names an active profile with a
\* token, or none, and either setting of the title mode
InitTitle ==
    /\ panorama \in TitleNames
    /\ api_key = (IF panorama = <<>> THEN 0 ELSE 1)
    /\ panoramas = [n \in {panorama} \ {<<>>} |-> Info(api_key)]
    /\ hide_panorama_users = FALSE
    /\ \E icon \in BOOLEAN : InitSettings(icon)
    /\ remote \in {r \in [LogTypes -> Histories({1})] : r["system"] = <<>>}
    /\ act_limit = MaxPolls
    /\ IF panorama = <<>>
       THEN LoginRefused([p \in TitlePaths |-> NoFile], {"dismissed"})
       ELSE Refreshed("refresh_logs", [p \in TitlePaths |-> NoFile])

SpecTitle == InitTitle /\ [][NextPolling]_vars

(* Several profiles, two of them with names that differ only in a character *)
(* the file name drops                                                     *)

AllNames == {<<"p", "1">>, <<"p", ":", "1">>, <<"b">>}
AllCachePaths == {get_cache_file_path(n, t) : n \in AllNames, t \in LogTypes}

\* self.panoramas after a login to each of the names
Registry ==
    [n \in AllNames |->
        Info(IF n = <<"b">> THEN 1 ELSE IF n = <<"p", "1">> THEN 2 ELSE 3)]

\* cache directories earlier runs may have left
LeftByEarlierRuns == [AllCachePaths -> {NoFile, StoreFile(<<RawEntry(1, 1, FALSE, NoText)>>)}]

InitProfiles ==
    /\ panoramas = Registry
    /\ panorama \in AllNames
    /\ api_key = InfoGet(panoramas[panorama])
    /\ remote = [t \in LogTypes |-> <<RawEntry(1, 1, FALSE, NoText)>>]
    /\ act_limit = MaxDelay
    /\ hide_panorama_users = FALSE
    /\ InitSettings(FALSE)
    /\ \E disk \in LeftByEarlierRuns : Refreshed("refresh_logs", disk)

NextProfiles ==
    \/ \E n \in AllNames : switch_to_panorama(n)
    \/ refresh_logs
    \/ force_clear_and_reload_logs
    \/ pull_extended_logs
    \/ StartRequest
    \/ PollJob
    \/ FinishSync

SpecProfiles == InitProfiles /\ [][NextProfiles]_vars

(* A registry read from a configuration file that may be damaged: the entry of *)
(* one profile is not a dict or has no token                                   *)

Registries ==
    {r \in [LoginNames -> {Info(1), Info(2), NotADict, DictWithoutKey}] :
        /\ r[<<"p", "1">>] \in {Info(1), DictWithoutKey}
        /\ r[<<"b">>] # Info(1)
        /\ \E n \in LoginNames : r[n] \in {NotADict, DictWithoutKey}}

\* load_config (lines 292-302): the token in use is the one of the active entry;
\* without one the login dialog of the start was dismissed
InitLogin ==
    /\ panoramas \in Registries
    /\ panorama \in {n \in LoginNames : IsDict(panoramas[n])}
    /\ api_key = InfoGet(panoramas[panorama])
    /\ remote = [t \in LogTypes |-> <<RawEntry(2, 1, FALSE, NoText)>>]
    /\ act_limit = MaxDelay
    /\ hide_panorama_users = FALSE
    /\ InitSettings(FALSE)
    /\ \E disk \in {f \in LeftByEarlierRuns : f[get_cache_file_path(<<"b">>, "system")] = NoFile} :
         IF NeedsCredentials(api_key, panorama)
         THEN LoginRefused(disk, {"dismissed"})
         ELSE Refreshed("refresh_logs", disk)

NextLogin ==
    \/ \E n \in LoginNames : switch_to_panorama(n)
    \/ refresh_logs
    \/ prompt_for_credentials(LoginNames)
    \/ StartRequest
    \/ PollJob
    \/ FinishSync

SpecLogin == InitLogin /\ [][NextLogin]_vars

(* Cache files whose entries may lack the children the menus and the search *)
(* read: the callbacks that build the menus, and the search                 *)

\* the children admin, cmd, path, result of a config entry; severity of a system entry
ConfigChildren ==
    { [admin |-> Text(AdminName), cmd |-> Text(SetCmd), path |-> NoText, result |-> NoText],
      [admin |-> Text(AdminName), cmd |-> Text(EditCmd), path |-> Text(SectionX),
       result |-> Text(CommitFailed)],
      [admin |-> Text(PanoramaUser), cmd |-> Text(SetCmd), path |-> NoText,
       result |-> Text(CommitFailed)],
      [admin |-> NoText, cmd |-> Text(SetCmd), path |-> NoText, result |-> NoText],
      [admin |-> Text(AdminName), cmd |-> NoText, path |-> Text(SectionX),
       result |-> Text(CommitFailed)],
      [admin |-> Text(PanoramaUser), cmd |-> NoText, path |-> NoText,
       result |-> Text(CommitFailed)] }
Severities == {NoText, Text(InfoSeverity), Text(HighSeverity)}

\* the cache files of a log type: up to MaxRaw entries, the i-th with logid i
ViewStores(t) ==
    IF t = "config"
    THEN {[i \in 1..Len(cs) |->
             Entry(i, 1, FALSE, cs[i].result, cs[i].admin, cs[i].cmd, cs[i].path, NoText)] :
          cs \in SeqsUpTo(ConfigChildren, MaxRaw)}
    ELSE {[i \in 1..Len(ss) |->
             Entry(i, 1, FALSE, NoText, Text(AdminName), NoText, NoText, ss[i])] :
          ss \in SeqsUpTo(Severities, MaxRaw)}

\* the entry of the active profile has no token and the login dialog was dismissed:
\* one cache file of the profile holds such entries as an earlier run has left
\* them; the appliance has no entry to add
InitViews ==
    /\ InitWithoutToken
    /\ hide_panorama_users \in BOOLEAN
    /\ InitSettings(FALSE)
    /\ remote = [t \in LogTypes |-> <<>>]
    /\ act_limit = 0
    /\ \E t \in LogTypes :
         \E es \in ViewStores(t) :
            LoginRefused([p \in CachePaths |->
                            IF p = get_cache_file_path(panorama, t) THEN StoreFile(es)
                            ELSE NoFile], {"dismissed"})

NextMenus ==
    \/ pull_extended_logs
    \/ StartRequest
    \/ PollJob
    \/ FinishSync

SpecMenus == InitViews /\ [][NextMenus]_vars

NextSearch ==
    \/ parse_saved_config_logs
    \/ search_logs(SearchTerms)

\* the search reads config_logs alone: Hide Panorama Users is off
InitSearch == InitViews /\ hide_panorama_users = FALSE

SpecSearch == InitSearch /\ [][NextSearch]_vars

-----------------------------------------------------------------------------
(* Properties *)

IsPrefix(s, t) == Len(s) <= Len(t) /\ \A i \in 1..Len(s) : s[i] = t[i]

Range(s) == {s[i] : i \in 1..Len(s)}

DistinctLogids(es) ==
    \A i \in 1..Len(es) : \A j \in 1..Len(es) : i < j => es[i].logid # es[j].logid

\* the greatest time_generated among the entries, 0 when none carries one
MaxStamp(es) == IF es = <<>> THEN 0 ELSE Max({es[i].tg : i \in 1..Len(es)})

\* a download call has just returned (its record is dropped at the next step)
CallReturned == last.fn # "none"

\* the cache file of the call that has just returned, what that call appended to
\* it and what it held before
LastEntries == files[get_cache_file_path(panorama, last.log_type)].entries
LastAppended == SubSeq(LastEntries, Len(LastEntries) - last.merged + 1, Len(LastEntries))
LastBefore == SubSeq(LastEntries, 1, Len(LastEntries) - last.merged)

\* C1: a sync callback (Sync 5000 or Sync 10000) run right after the same callback,
\* against the same appliance history, every job of both runs having finished,
\* leaves each store with as many entries as the first run left.
C1_SecondSyncSameSize ==
    (pc = "parse" /\ handler \in SyncCallbacks /\ prev.op = handler /\ all_merged)
        => StoreSizes = prev.size

\* C2: an entry accepted by an incremental merge (skip = 0) has a time stamp strictly
\* greater than the greatest time_generated persisted before the merge; an entry whose
\* stamp equals it is rejected.
C2_OnlyStrictlyNewer ==
    (CallReturned /\ last.outcome = "merged" /\ last.skip = 0)
        => \A i \in 1..Len(LastAppended) : LastAppended[i].tg > MaxStamp(LastBefore)

\* C3: no two entries persisted in one cache file share a logid.
C3_NoDuplicateLogid ==
    \A p \in DOMAIN files : DistinctLogids(files[p].entries)

\* C4: Sync 10000 started on an empty store, both chunks of the log type finished:
\* the store holds exactly the entries of the skip=0 and the skip=5000 window, no
\* logid twice, as many entries as the two windows hold distinct ones.
C4_ChunkedUnion ==
    (pc = "parse" /\ handler = "pull_10000_logs" /\ all_merged)
        => \A t \in LogTypes :
              fromEmpty[t] =>
                 LET both == Range(ProviderWindow(remote[t], NLogs, 0))
                              \cup Range(ProviderWindow(remote[t], NLogs, SkipSecond))
                     es == CacheFile(t).entries
                 IN  /\ Range(es) = both
                     /\ DistinctLogids(es)
                     /\ Len(es) = Cardinality(both)

\* C5: a finished chunk fetched with skip > 0 is appended whole, whatever the time
\* stamps of its entries; a finished chunk with skip = 0 (the first chunk) appends
\* exactly the fetched entries that pass the time-stamp filter.
C5_SkipChunkAppendsAll ==
    /\ (CallReturned /\ last.status = "FIN" /\ last.skip > 0)
          => /\ last.outcome = "merged"
             /\ last.merged = Len(last.fetched)
             /\ LastAppended = last.fetched
    /\ (CallReturned /\ last.status = "FIN" /\ last.skip = 0)
          => /\ last.outcome = "merged"
             /\ LastAppended = SelectSeq(last.fetched,
                    LAMBDA e : e.tg # 0 /\ e.tg > Latest(LastBefore))

\* C5 witness: a skip > 0 chunk has appended an entry that has no time stamp or one
\* not greater than a stamp already persisted.
C5_Witness ==
    /\ CallReturned /\ last.status = "FIN" /\ last.skip > 0
    /\ LastBefore # <<>>
    /\ \E i \in 1..Len(LastAppended) :
          LastAppended[i].tg = 0 \/ LastAppended[i].tg <= MaxStamp(LastBefore)

\* C6: every step keeps the entries of every cache file as a prefix of what the file
\* holds afterwards (a step that leaves the cache directory as it is does so), except
\* the steps of a callback entered from idle that delete the file (refresh, clear).
C6_MergeOnlyAppends ==
    [][\/ files' = files
       \/ \A p \in DOMAIN files :
             \/ IsPrefix(files[p].entries, files'[p].entries)
             \/ (pc = "idle" /\ ~files'[p].exists)]_vars

\* C6 witness: a merge has appended entries to a store that already held some.
C6_Witness ==
    CallReturned /\ last.outcome = "merged" /\ last.merged > 0 /\ LastBefore # <<>>

\* positions of the raw entries that carry a logid no earlier entry carries
FirstOccurrences(raw) ==
    SelectSeq([i \in 1..Len(raw) |-> i],
              LAMBDA i : raw[i].logid # 0 /\ \A j \in 1..(i - 1) : raw[j].logid # raw[i].logid)

WithLogid(logs) == SelectSeq(logs, LAMBDA l : l.LogID # 0)

\* C7: after a parse, the normalised entries that carry a logid are, in store order,
\* the first raw entry of each distinct logid - one per logid - for the config and
\* for the system list.
C7_FirstOccurrenceWins ==
    /\ derived["config"] =>
          LET raw == CacheFile("config").entries
              kept == FirstOccurrences(raw)
              got == WithLogid(config_logs)
          IN  [k \in 1..Len(got) |-> [LogID |-> got[k].LogID, Result |-> got[k].Result]] =
                 [k \in 1..Len(kept) |->
                    [LogID |-> raw[kept[k]].logid, Result |-> raw[kept[k]].result]]
    /\ derived["system"] =>
          LET raw == CacheFile("system").entries
              kept == FirstOccurrences(raw)
              got == WithLogid(system_logs)
          IN  [k \in 1..Len(got) |-> [LogID |-> got[k].LogID, Time |-> got[k].Time]] =
                 [k \in 1..Len(kept) |->
                    [LogID |-> raw[kept[k]].logid, Time |-> raw[kept[k]].tg]]

\* C7 witness: a parsed config file repeats a logid with different content after the
\* first occurrence and also holds another logid.
C7_Witness ==
    /\ derived["config"]
    /\ LET raw == CacheFile("config").entries
       IN  /\ \E i \in 1..Len(raw) : \E j \in 1..Len(raw) :
                 i < j /\ raw[i].logid # 0 /\ raw[i].logid = raw[j].logid /\ raw[i] # raw[j]
           /\ Cardinality({raw[i].logid : i \in 1..Len(raw)} \ {0}) >= 2
           /\ Len(config_logs) < Len(raw)

\* C8: after a config parse both lists are derived from the store as it is: every
\* failed commit is one of config_logs, and both lists are empty when the store
\* holds no entry or is absent.
C8_ListsFollowStore ==
    derived["config"] =>
        /\ \A i \in 1..Len(failed_commits) :
              \E j \in 1..Len(config_logs) : config_logs[j] = failed_commits[i]
        /\ CacheFile("config").entries = <<>> =>
              (config_logs = <<>> /\ failed_commits = <<>>)

\* Result holds the letters f, a, i, l in a row, in either case
HasFail(log) ==
    /\ log.Result # NoText
    /\ \E i \in 1..Len(TextOf(log.Result)) :
          /\ i + 3 <= Len(TextOf(log.Result))
          /\ TextOf(log.Result)[i] \in {"f", "F"}
          /\ TextOf(log.Result)[i + 1] \in {"a", "A"}
          /\ TextOf(log.Result)[i + 2] \in {"i", "I"}
          /\ TextOf(log.Result)[i + 3] \in {"l", "L"}

\* C9: after a config parse, failed_commits is the subsequence of config_logs whose
\* Result contains "fail" in any case, in the same order.
C9_FailedIffResultHasFail ==
    derived["config"] => failed_commits = SelectSeq(config_logs, HasFail)

\* the classification on its own: it holds after every parse that read the file
ClassifiedWhenFileRead ==
    (derived["config"] /\ CacheFile("config").exists)
        => failed_commits = SelectSeq(config_logs, HasFail)

\* C10: a download call whose job finished with entries that all carry a time stamp
\* leaves the cache file well-formed and holding the fetched entries, also when the
\* file was not XML before.
C10_CorruptStoreReplaced ==
    (CallReturned /\ last.status = "FIN" /\ last.fetched # <<>>
        /\ \A i \in 1..Len(last.fetched) : last.fetched[i].tg # 0)
        => LET f == files[get_cache_file_path(panorama, last.log_type)]
           IN  /\ f.exists /\ f.wellformed
               /\ last.outcome = "merged"
               /\ Range(last.fetched) \subseteq Range(f.entries)

\* C11: after a parse of a cache file that is not XML the parse has returned and the
\* lists it fills are empty: config_logs and failed_commits for the config file,
\* system_logs for the system file.
C11_CorruptLoadsEmpty ==
    /\ (derived["config"] /\ CacheFile("config").exists /\ ~CacheFile("config").wellformed)
          => (config_logs = <<>> /\ failed_commits = <<>>)
    /\ (derived["system"] /\ CacheFile("system").exists /\ ~CacheFile("system").wellformed)
          => system_logs = <<>>

\* C11 witness: the config cache file is not XML and has been parsed.
C11_Witness ==
    /\ derived["config"]
    /\ CacheFile("config").exists /\ ~CacheFile("config").wellformed
    /\ config_logs = <<>> /\ failed_commits = <<>>

\* the download calls of Sync 10000 have positions 1..4
ChunkSteps == 1..Len(Calls("pull_10000_logs"))

\* C12: a download call issues at most 60 status checks: the 60th iteration of the
\* polling loop ends it, as timed out when the answer is neither FIN nor FAIL, and a
\* call ends as timed out only there; and every call that has been entered returns
\* to its callback.
C12_DownloadTerminates ==
    /\ [](pc = "poll" => attempt < MaxPolls)
    /\ [][(pc = "poll" /\ attempt + 1 = MaxPolls)
             => /\ pc' # "poll"
                /\ last'.status \notin {"none", "FIN", "FAIL"} => last'.outcome = "timeout"]_vars
    /\ [][(pc = "poll" /\ last'.outcome = "timeout") => attempt + 1 = MaxPolls]_vars
    /\ \A s \in ChunkSteps :
          (pc \in {"start", "poll"} /\ step = s) ~> (pc \notin {"start", "poll"} \/ step # s)

\* C12 witness: a call has returned as timed out.
C12_Witness ==
    CallReturned /\ last.outcome = "timeout" /\ last.status = "ACT"

\* C13: status checks are issued only for a job id the start request returned and
\* never after FIN or FAIL was read; a cache file is written only by the status
\* check that reads FIN, which also ends the polling; and polling ends in exactly
\* one of merged, failed, timed out (or the abort by an exception).
C13_ChunkStateMachine ==
    /\ [](pc = "poll" => (job_id # 0 /\ status \notin {"FIN", "FAIL"}))
    /\ [][files' # files => (pc = "poll" /\ last'.status = "FIN" /\ pc' # "poll")]_vars
    /\ [][(pc = "poll" /\ pc' # "poll") =>
             \/ last'.status = "FIN" /\ last'.outcome \in {"merged", "exception"}
             \/ last'.status = "FAIL" /\ last'.outcome = "failed"
             \/ last'.status \notin {"FIN", "FAIL"} /\ last'.outcome \in {"timeout", "exception"}]_vars

\* C13 witness: the job of a second chunk was started, polled and read as FAIL.
C13_Witness ==
    /\ CallReturned /\ last.status = "FAIL" /\ last.outcome = "failed"
    /\ last.fn = "download_and_merge_logs_with_skip"

\* C14: in Sync 10000 a call that ends without a merge leaves every cache file as it
\* is and the callback goes on with the next call; the parsing tail is reached only
\* after all four calls were made.
C14_ChunkFailureIsLocal ==
    /\ []((pc = "parse" /\ handler = "pull_10000_logs") => step = 4)
    /\ [][(handler = "pull_10000_logs" /\ last'.fn # "none" /\ last'.outcome # "merged")
             => /\ files' = files
                /\ \/ step' = step + 1 /\ pc' = "start"
                   \/ step = 4 /\ pc' = "parse"]_vars

\* C14 witness: the second chunk of a log type timed out while the store still holds
\* what the first chunk merged into the empty store.
C14_Witness ==
    /\ CallReturned /\ handler = "pull_10000_logs"
    /\ last.skip > 0 /\ last.outcome = "timeout"
    /\ fromEmpty[last.log_type]
    /\ CacheFile(last.log_type).entries # <<>>

\* C15: a sync callback raises "Sync Complete" only when every download call it made
\* ended with the job finished and merged.
C15_FailureIsReported ==
    alert = "Sync Complete" => prev.op \in SyncCallbacks

\* C16: when a download call of any callback is aborted by a transport error, a store
\* that held entries when the callback began still holds entries.
C16_TransportErrorKeepsStore ==
    (CallReturned /\ last.outcome = "exception" /\ last.status = "none"
        /\ ~fromEmpty[last.log_type])
        => CacheFile(last.log_type).entries # <<>>

\* C17: a start request answered with status="error" or without a job id ends the
\* call at once: no status check is issued, nothing is merged, no cache file is
\* changed; status checks are made only with a job id.
C17_NoJobNoPolling ==
    /\ []((CallReturned /\ last.outcome \in {"api_error", "no_job"})
            => (last.status = "none" /\ last.merged = 0))
    /\ [](pc = "poll" => job_id # 0)
    /\ [][(pc = "start" /\ last'.outcome \in {"api_error", "no_job"})
             => (files' = files /\ pc' # "poll" /\ attempt' = 0)]_vars

\* C17 witness: a call ended for lack of a job id while the store holds entries.
C17_Witness ==
    /\ CallReturned /\ last.outcome = "no_job"
    /\ CacheFile(last.log_type).entries # <<>>

\* C18: a status check whose answer cannot be parsed or carries no status ends the
\* polling of the job: the loop is never left waiting after an answer without status.
C18_MissingStatusAborts ==
    /\ pc = "poll" => status # "NONE"
    /\ (CallReturned /\ last.outcome = "exception" /\ last.status = "none")
          => last.merged = 0

\* C19: in Sync 10000 a skip=5000 call is made only after the skip=0 call of the same
\* log type; a start request is issued only when the call before it has ended and no
\* job is in flight.
C19_ChunksInSequence ==
    /\ []((pc \in {"start", "poll"} /\ handler = "pull_10000_logs" /\ CurrentCall.skip > 0)
            => \E s \in 1..(step - 1) :
                  /\ Calls(handler)[s].skip = 0
                  /\ Calls(handler)[s].log_type = CurrentCall.log_type)
    /\ [][(pc' = "start" /\ step' > 1 /\ step' # step)
             => /\ step' = step + 1
                /\ last'.outcome # "none"
                /\ job_id' = 0]_vars

\* C19 witness: the start request of the second config chunk is about to be issued
\* after the first system chunk timed out.
C19_Witness ==
    /\ pc = "start" /\ handler = "pull_10000_logs" /\ step = 3
    /\ last.log_type = "system" /\ last.skip = 0 /\ last.outcome = "timeout"

\* C20: the cache files of a profile are its own: a step changes no cache file of a
\* profile of the registry other than the one that is active after the step.
C20_ProfileStoresIsolated ==
    [][\A n \in DOMAIN panoramas : \A t \in LogTypes :
          n # panorama' =>
             files'[get_cache_file_path(n, t)] = files[get_cache_file_path(n, t)]]_vars

\* the registry entry of the profile cannot open a session: it is not a dict, or it
\* has no token
CorruptEntry(info) == ~IsDict(info) \/ InfoGet(info) = 0

\* the function whose frame runs the downloads of a login
LoginCallbacks == {"switch_to_panorama", "prompt_for_credentials"}

\* C21: switch_to_panorama(name) for a profile whose registry entry is not a dict or
\* has no token opens the login dialog (after the alert "Invalid config" when the
\* entry is not a dict) and starts no download; a download of that callback starts
\* only from the login dialog, with a key just stored for the active profile; and
\* the requests of the callback carry the token stored for the active profile.
C21_CorruptEntryAsksLogin ==
    /\ [][(pc = "idle" /\ handler' = "switch_to_panorama" /\ CorruptEntry(panoramas[panorama']))
             => /\ pc' = "login"
                /\ job_id' = 0
                /\ files' = files
                /\ ~IsDict(panoramas[panorama']) => alert' = "Invalid config"]_vars
    /\ [][(pc = "login" /\ pc' # "login")
             => \/ pc' = "idle" /\ files' = files /\ panoramas' = panoramas
                \/ /\ pc' = "start"
                   /\ panoramas'[panorama'] = Info(api_key')
                   /\ api_key' \in LoginKeys]_vars
    /\ []((handler \in LoginCallbacks /\ pc \in {"start", "poll"})
            => /\ IsDict(panoramas[panorama])
               /\ api_key # 0
               /\ api_key = InfoGet(panoramas[panorama]))

\* C21 witness: the switch to a profile whose entry is not a dict raised "Invalid
\* config" and waits in the login dialog, the token of the profile left behind still
\* being the one in use.
C21_Witness ==
    /\ handler = "switch_to_panorama" /\ pc = "login"
    /\ ~IsDict(panoramas[panorama])
    /\ alert = "Invalid config"
    /\ api_key # 0

\* two characters are the same letter in either case
SameLetter(a, b) ==
    \/ a = b
    \/ a \in DOMAIN LowerOf /\ LowerOf[a] = b
    \/ b \in DOMAIN LowerOf /\ LowerOf[b] = a

\* sub occurs in s, the case of letters ignored
ContainsIgnoringCase(sub, s) ==
    \E i \in 0..(Len(s) - Len(sub)) : \A k \in 1..Len(sub) : SameLetter(sub[k], s[i + k])

\* the string form of at least one field of the log contains the term
FieldMatches(term, log) ==
    \E values \in {StrValues(log)} :
        \E v \in 1..Len(values) : ContainsIgnoringCase(term, values[v])

\* the last callback was a search that got a term
SearchDone == alert \in {"No matching entries found.", "Search Results Exported"}

\* C22: a search for a non-empty term yields exactly the entries of config_logs of
\* which the string form of at least one field contains the term, the case of
\* letters ignored: each such entry once, in the order of config_logs; the alert for
\* no match is raised exactly when there is none.
C22_SearchMatchesAnyField ==
    SearchDone =>
        /\ search.term # <<>>
        /\ search.matches =
              SelectSeq(config_logs, LAMBDA log : FieldMatches(search.term, log))
        /\ (alert = "No matching entries found.") <=> (search.matches = <<>>)

\* C22 witness: a search matched an entry in two of its fields, one of them only
\* when case is ignored, and left out another entry.
C22_Witness ==
    /\ SearchDone
    /\ search.term = <<"A">>
    /\ Len(search.matches) < Len(config_logs)
    /\ \E i \in 1..Len(search.matches) :
          /\ search.matches[i].Admin = Text(AdminName)
          /\ search.matches[i].Result = Text(CommitFailed)

\* the keys of the groups of the three menus
MenuKeys ==
    {menus.config[g].key : g \in 1..Len(menus.config)}
        \cup UNION {{menus.config[g].types[k].key : k \in 1..Len(menus.config[g].types)} :
                       g \in 1..Len(menus.config)}
        \cup {menus.system[g].key : g \in 1..Len(menus.system)}
        \cup {menus.failed[g].key : g \in 1..Len(menus.failed)}

\* C23: whatever children (admin, cmd, result, path) the entries of the cache files
\* lack and whatever Hide Panorama Users is, the menu builders complete without an
\* exception, and no group is keyed by a missing value.
C23_MissingFieldsTolerated ==
    /\ error = "none"
    /\ NoText \notin MenuKeys

\* the log is removed by the Hide Panorama Users filter
Hidden(log) ==
    hide_panorama_users /\ log.Admin # NoText /\ StartsWith(TextOf(log.Admin), PanoramaPrefix)

Shown(logs) == SelectSeq(logs, LAMBDA log : ~Hidden(log))

\* groups, keyed by keys[i] for logs[i], are a stable partition of logs: one group
\* per key that occurs, holding the logs of that key in their order
StablePartition(groups, keys, logs) ==
    /\ \A g \in 1..Len(groups) : \A h \in 1..Len(groups) :
          g # h => groups[g].key # groups[h].key
    /\ {groups[g].key : g \in 1..Len(groups)} = {keys[i] : i \in 1..Len(logs)}
    /\ \A g \in 1..Len(groups) :
          LET at == SelectSeq([i \in 1..Len(logs) |-> i],
                              LAMBDA i : keys[i] = groups[g].key)
          IN  groups[g].logs = [k \in 1..Len(at) |-> logs[at[k]]]

AdminsOf(logs) == [i \in 1..Len(logs) |-> logs[i].Admin]

\* the three menus partition the lists they were built from
MenusPartitionLists ==
    /\ LET logs == Shown(config_logs)
       IN  /\ StablePartition([g \in 1..Len(menus.config) |->
                                 [key |-> menus.config[g].key,
                                  logs |-> SelectSeq(logs,
                                             LAMBDA l : l.Admin = menus.config[g].key)]],
                              AdminsOf(logs), logs)
           /\ \A g \in 1..Len(menus.config) :
                 LET mine == SelectSeq(logs, LAMBDA l : l.Admin = menus.config[g].key)
                 IN  StablePartition(menus.config[g].types,
                                     [i \in 1..Len(mine) |-> mine[i].CommandType], mine)
    /\ StablePartition(menus.system,
                       [i \in 1..Len(system_logs) |-> system_logs[i].Severity], system_logs)
    /\ StablePartition(menus.failed, AdminsOf(Shown(failed_commits)), Shown(failed_commits))

\* a callback has just parsed both cache files and run the menu builders
MenusBuilt == derived["config"] /\ derived["system"]

\* C24: after the menus are rebuilt, their groups (config by Admin then Command Type,
\* system by Severity, failed commits by Admin) are a stable partition: every entry
\* the Hide Panorama Users filter keeps is in exactly one group, and each group holds
\* its entries in the order of the list.
C24_GroupingIsStablePartition ==
    MenusBuilt => MenusPartitionLists

\* the partition on its own: it holds whenever the builders ran to their end
PartitionWhenBuildersComplete ==
    (MenusBuilt /\ error = "none") => MenusPartitionLists

\* the builders ran to their end on lists that need two admins, one with two types
PartitionCase ==
    /\ MenusBuilt /\ error = "none"
    /\ Len(menus.config) >= 2
    /\ \E g \in 1..Len(menus.config) : Len(menus.config[g].types) >= 2

\* no cache file is left in the cache directory
NoStoreLeft == \A p \in DOMAIN files : ~files[p].exists

\* C25: Clear All Cache completes whether or not cache files exist and leaves no
\* cache file of any profile; a parse that follows it yields empty lists
\* (config_logs and failed_commits, system_logs).
C25_ClearAllLeavesNothing ==
    /\ [][(pc = "idle" /\ alert' = "Cache Cleared")
             => \A p \in DOMAIN files : ~files'[p].exists]_vars
    /\ []((NoStoreLeft /\ derived["config"])
            => (config_logs = <<>> /\ failed_commits = <<>>))
    /\ []((NoStoreLeft /\ derived["system"]) => system_logs = <<>>)

\* the part that holds: the files are gone and the parses empty the lists they assign
ClearAllEmptiesStores ==
    /\ alert = "Cache Cleared" => NoStoreLeft
    /\ (NoStoreLeft /\ derived["config"]) => config_logs = <<>>
    /\ (NoStoreLeft /\ derived["system"]) => system_logs = <<>>

\* C26: when a download call that merged entries into a cache file has returned, the
\* mode of that file is 0600.
C26_StoreModeIs0600 ==
    (CallReturned /\ last.outcome = "merged" /\ last.merged > 0)
        => /\ CacheFile(last.log_type).exists
           /\ CacheFile(last.log_type).mode = "0600"

\* C26 witness: a call has returned after its merge created the cache file.
C26_Witness ==
    /\ CallReturned /\ last.outcome = "merged" /\ last.merged > 0
    /\ Len(CacheFile(last.log_type).entries) = last.merged
    /\ CacheFile(last.log_type).mode = "0600"

\* the cache directory after the download call, made on the cache directory fs, has
\* read FIN
AfterFin(fs, call) ==
    LET path == get_cache_file_path(panorama, call.log_type)
        fetched == ProviderWindow(remote[call.log_type], call.nlogs, call.skip)
    IN  [fs EXCEPT ![path] = MergeResult(fs[path], NewEntriesOf(call, fs[path], fetched)).file]

\* the download calls the callbacks make
AllCalls == UNION {Range(Calls(h)) : h \in SyncCallbacks \cup {"refresh_logs"}}

\* C27: the stores of the two log types of a profile are disjoint: a step of a
\* download call (start request, status check, merge or failure) leaves the cache
\* file of the other log type as it is, and two calls for different log types leave
\* the same cache files in whichever order they finish.
C27_CategoriesAreDisjoint ==
    /\ [][(pc \in {"start", "poll"})
             => (\A t \in LogTypes :
                    t # CurrentCall.log_type
                       => files'[get_cache_file_path(panorama, t)]
                             = files[get_cache_file_path(panorama, t)])]_vars
    /\ [](\A c \in AllCalls : \A d \in AllCalls :
            c.log_type # d.log_type
               => AfterFin(AfterFin(files, c), d) = AfterFin(AfterFin(files, d), c))

\* C27 witness: a system call has merged entries while the config store of the
\* profile holds entries.
C27_Witness ==
    /\ CallReturned /\ last.log_type = "system" /\ last.merged > 0
    /\ CacheFile("config").entries # <<>>
    /\ CacheFile("system").entries # <<>>

\* C28: a download call whose job fails or whose 60 status checks are used up merges
\* nothing: the step that ends it, like every step of the call before it, leaves
\* every cache file as it is - no file is created, none rewritten; a cache file
\* changes only in the step that reads FIN.
C28_FailureMergesNothing ==
    /\ [][(pc = "poll" /\ last'.outcome \in {"failed", "timeout"})
             => (files' = files /\ last'.merged = 0)]_vars
    /\ [][(pc \in {"start", "poll"} /\ files' # files)
             => (last'.status = "FIN" /\ last'.outcome = "merged")]_vars
    /\ []((CallReturned /\ last.status = "FAIL") => last.outcome = "failed")

\* C28 witness: the first call for the log type ended with FAIL (or timed out) on
\* the store the callback found absent, and no cache file has been created.
C28_Witness ==
    /\ CallReturned /\ last.outcome \in {"failed", "timeout"}
    /\ last.skip = 0
    /\ fromEmpty[last.log_type]
    /\ ~CacheFile(last.log_type).exists

\* C29: an incremental merge (skip = 0) of a finished job into a store that held no
\* entry persists every entry the job returned, also the entries that carry no
\* time_generated.
C29_EmptyStoreKeepsAll ==
    (CallReturned /\ last.status = "FIN" /\ last.skip = 0 /\ LastBefore = <<>>)
        => (last.outcome = "merged" /\ LastAppended = last.fetched)

\* the same for fetched entries that all carry a time_generated: this holds
EmptyStoreKeepsStamped ==
    (CallReturned /\ last.status = "FIN" /\ last.skip = 0 /\ LastBefore = <<>>
        /\ \A i \in 1..Len(last.fetched) : last.fetched[i].tg # 0)
        => (last.outcome = "merged" /\ LastAppended = last.fetched)

\* the callbacks that run refresh_logs
RefreshCallbacks ==
    {"refresh_logs", "force_clear_and_reload_logs", "switch_to_panorama",
     "prompt_for_credentials"}

\* C30: Refresh Logs is a full resync: when a download call of a refresh has read
\* FIN, the store of its log type holds exactly the entries this fetch returned and
\* none persisted before the refresh.
C30_RefreshIsFullResync ==
    (CallReturned /\ handler \in RefreshCallbacks /\ last.status = "FIN")
        => CacheFile(last.log_type).entries = last.fetched

\* what holds of a refresh: nothing persisted before it is left, and the store holds
\* exactly the fetched entries that carry a time_generated
RefreshKeepsOnlyStamped ==
    (CallReturned /\ handler \in RefreshCallbacks /\ last.status = "FIN")
        => CacheFile(last.log_type).entries
              = SelectSeq(last.fetched, LAMBDA e : e.tg # 0)

\* C31: whenever no callback runs and an active profile is set, the token in use is
\* the token the registry stores for the active profile (none when the entry holds
\* none).
C31_TokenIsOfActiveProfile ==
    (pc = "idle" /\ panorama # <<>>)
        => /\ panorama \in DOMAIN panoramas
           /\ api_key = InfoGet(panoramas[panorama])

\* C32: a download call uses one profile from its start request to its merge: no
\* step taken while a call is running changes the active profile, the token in use
\* or the registry (a switch of profile is not dispatched before the callback has
\* ended), and the only cache file such a step changes is the one of the active
\* profile for the log type of the call.
C32_OneProfilePerCall ==
    [][(pc \in {"start", "poll"})
          => (/\ panorama' = panorama
              /\ api_key' = api_key
              /\ panoramas' = panoramas
              /\ \A p \in DOMAIN files :
                    files'[p] # files[p]
                       => p = get_cache_file_path(panorama, CurrentCall.log_type))]_vars

\* C32 witness: in a callback that switched to profile b the config call has merged
\* into the store of b and the system call is about to start, while the registry
\* holds another profile whose store exists.
C32_Witness ==
    /\ handler = "switch_to_panorama" /\ pc = "start" /\ step = 2
    /\ panorama = <<"b">>
    /\ last.outcome = "merged" /\ last.merged > 0
    /\ files[get_cache_file_path(<<"p", "1">>, "config")].exists
    /\ <<"p", "1">> \in DOMAIN panoramas

\* number of raw entries without a logid attribute
RawWithoutLogid(raw) == Len(SelectSeq(raw, LAMBDA e : e.logid = 0))

\* number of normalised entries without a Log ID
LogsWithoutLogid(logs) == Len(SelectSeq(logs, LAMBDA l : l.LogID = 0))

\* C33: after a parse, every raw entry without a logid has its own normalised entry:
\* the list holds as many entries without a Log ID as the cache file holds entries
\* without a logid, for the config and for the system list.
C33_NoLogidIsNoDuplicate ==
    /\ derived["config"] =>
          LogsWithoutLogid(config_logs) = RawWithoutLogid(CacheFile("config").entries)
    /\ derived["system"] =>
          LogsWithoutLogid(system_logs) = RawWithoutLogid(CacheFile("system").entries)

\* the config half of C33: the config parse keeps every entry without a logid
ConfigKeepsNoLogid ==
    derived["config"] =>
        LogsWithoutLogid(config_logs) = RawWithoutLogid(CacheFile("config").entries)

\* the system parse keeps one entry without a logid, the first, however many the
\* cache file holds
SystemKeepsOneNoLogid ==
    derived["system"] =>
        LogsWithoutLogid(system_logs)
            = (IF RawWithoutLogid(CacheFile("system").entries) > 0 THEN 1 ELSE 0)

\* a config file with two entries without a logid has been parsed
ConfigNoLogidCase ==
    derived["config"] /\ RawWithoutLogid(CacheFile("config").entries) >= 2

\* C34: after a system parse, the k-th entry of system_logs has "Entry #" k.
C34_IndexIsPosition ==
    derived["system"] => \A k \in 1..Len(system_logs) : system_logs[k].EntryNo = k

\* "Entry #" is the position of the entry in the cache file, the entries dropped as
\* duplicates counted
IndexIsRawPosition ==
    derived["system"] =>
        \A k \in 1..Len(system_logs) :
            LET i == system_logs[k].EntryNo
                raw == CacheFile("system").entries
            IN  /\ i \in 1..Len(raw)
                /\ raw[i].logid = system_logs[k].LogID
                /\ raw[i].tg = system_logs[k].Time
                /\ \A j \in 1..(i - 1) : raw[j].logid # raw[i].logid

\* C35: a login whose key generation fails (the step out of the login dialog that
\* raises "Login Failed") ends the callback and leaves the registry, the active
\* profile, the token in use, the configuration file and the cache files as they
\* were; no request of a sync is made.
C35_FailedKeygenChangesNothing ==
    [][(pc = "login" /\ alert' = "Login Failed")
          => (/\ panoramas' = panoramas
              /\ panorama' = panorama
              /\ api_key' = api_key
              /\ saved' = saved
              /\ files' = files
              /\ pc' = "idle" /\ handler' = "idle" /\ job_id' = 0)]_vars

\* C35 witness: key generation has failed in the login dialog that a switch to a
\* profile with a corrupt entry opened; the configuration file still names the
\* profile left behind.
C35_Witness ==
    /\ pc = "idle" /\ alert = "Login Failed"
    /\ ~IsDict(panoramas[panorama])
    /\ saved.active # panorama
    /\ saved.panoramas = panoramas

\* C36: whenever no polling loop is running, so after every download call that has
\* returned, by FIN, FAIL, timeout, API error, missing job id or exception, the title
\* is the one update_title computes: empty in icon-only mode, else the name of the
\* active profile, else "Panorama Logs"; and in icon-only mode the title is never a
\* progress text.
C36_TitleRestoredAfterDownload ==
    /\ pc # "poll" => title = update_title(display_menu_icon, panorama)
    /\ display_menu_icon => title.progress = 0
    /\ title.progress \in 0..MaxPolls

\* C36 witness: a download call of a profile has timed out with the title shown, so
\* after the progress text of its 60th status check, and the title is the name again.
C36_Witness ==
    /\ CallReturned /\ last.outcome = "timeout"
    /\ ~display_menu_icon
    /\ panorama # <<>>
    /\ title = Title(panorama)

====
